---- MODULE Spec2Model ----
(***************************************************************************)
(* ShelfEye: slot classification (SlotProcessor of process_cameras.py and  *)
(* CameraManager of camera_manager.py), the QR reader (QRDetector of       *)
(* qr_detector.py), the batch run (CameraProcessor and main of             *)
(* process_cameras.py), the run of camera_manager.py, 4-corner calibration *)
(* (ArucoCornerCalibrator of aruco_calibrator.py) and the alert LED        *)
(* (AlertLED of alert_led.py).                                             *)
(*                                                                         *)
(* Images are not modelled pixel by pixel: a frame is its size, a region   *)
(* is its bounding rectangle, and what OpenCV / pyzbar / the file system   *)
(* return for a call is an input of the operation that makes the call.     *)
(* Similarity scores are in hundredths (0.8 is 80).                        *)
(***************************************************************************)
EXTENDS Integers, Sequences, FiniteSets, TLC

VARIABLES
    call,       \* the last library call made: [fn, in, out, raised]
    calib,      \* the last calibration call: [fn, in, out, trace]
    run,        \* the batch run of process_cameras.main
    led         \* an AlertLED, its caller and its flash threads

vars == <<call, calib, run, led>>

None == "None"

Max(a, b) == IF a >= b THEN a ELSE b
Min(a, b) == IF a <= b THEN a ELSE b

\* Sequences over S of length 0..n.
SeqUpTo(S, n) == UNION {[1..k -> S] : k \in 0..n}

----------------------------------------------------------------------------
(* Bounds of the model.                                                    *)

FrameW == 4         \* frame width in pixels
FrameH == 3         \* frame height in pixels
MaxPayloads == 2    \* payloads detect_qr_codes returns for one region
MaxCameras == 2     \* cameras in one batch run
MaxSlots == 2       \* slots configured for one camera
MaxDetections == 4  \* markers detectMarkers reports in one frame
MaxVariants == 2    \* preprocessed images detect_qr_codes decodes

----------------------------------------------------------------------------
(* SlotProcessor (process_cameras.py)                                      *)

\* A slot's regionCoords: its bounding rectangle as cv2.boundingRect gives
\* it, or coordinates np.array / boundingRect reject (form "malformed").
\* boundingRect counts the pixels from the least to the greatest coordinate:
\* a width or height of 1 is a polygon whose points lie on one line.
Rect(x, y, w, h) == [form |-> "rect", x |-> x, y |-> y, w |-> w, h |-> h]
MalformedRegion == [form |-> "malformed", x |-> 0, y |-> 0, w |-> 0, h |-> 0]
NoRoi == [form |-> "None", x |-> 0, y |-> 0, w |-> 0, h |-> 0]

Regions ==
    {MalformedRegion} \cup
    {Rect(x, y, w, h) :
        x \in {0 - 3, 0 - 1, 0, 2, FrameW}, y \in {0, FrameH}, w \in {1, 2, 3}, h \in {1, 2}}

\* SlotProcessor.extract_roi: the crop [y:y+h, x:x+w] after clamping, or None.
extract_roi(region) ==
    IF region.form # "rect" THEN NoRoi
    ELSE LET x == Max(0, region.x)
             y == Max(0, region.y)
             w == Min(region.w, FrameW - x)
             h == Min(region.h, FrameH - y)
         IN  IF w <= 0 \/ h <= 0 THEN NoRoi ELSE Rect(x, y, w, h)

\* What decode_qr returns for a region: None, or the non-empty string of the
\* QR code, described by what json.loads makes of it:
\*   notjson  json.loads raises JSONDecodeError
\*   falsy    a JSON value Python treats as false ({}, [], 0, null, "")
\*   scalar   a true JSON value that is no object (17, [1], "T17")
\*   object   a non-empty JSON object; type, id, worker_name are its keys'
\*            values, "missing" where the key is absent
QrText(form, type, id, wn) ==
    [form |-> form, type |-> type, id |-> id, worker_name |-> wn]
NoQr == QrText("None", "missing", "missing", "missing")

QrStrings ==
    {NoQr} \cup
    {QrText(f, "missing", "missing", "missing") : f \in {"notjson", "falsy", "scalar"}} \cup
    {QrText("object", t, i, n) :
        t \in {"worker", "slot", "tool", "missing"},
        i \in {"T17", "T99"},
        n \in {"Alice", "missing"}}

\* SlotProcessor.parse_qr_json: the parsed value, or None.
parse_qr_json(qr_raw) ==
    IF qr_raw.form = "notjson" THEN NoQr ELSE qr_raw

\* Python truth of a parsed JSON value (None and the falsy values are false).
Truthy(v) == v.form \in {"scalar", "object"}

\* dict.get(key, default)
Get(v, default) == IF v = "missing" THEN default ELSE v

Status(st, alert, wn, exc) ==
    [status |-> st, alert |-> alert, worker_name |-> wn, raised |-> exc]

\* determine_status raising the alert for a QR code of unknown type.
determine_status_AlertOnUnknownType(qr_data) ==
    IF qr_data.form = "None" THEN Status("ITEM_PRESENT", FALSE, None, None)
    ELSE LET qr_json == parse_qr_json(qr_data) IN
         IF ~Truthy(qr_json) THEN Status("ITEM_PRESENT", FALSE, None, None)
         ELSE IF qr_json.form # "object"
              THEN Status(None, FALSE, None, "AttributeError")
         ELSE IF qr_json.type = "worker"
              THEN Status("CHECKED_OUT", FALSE, Get(qr_json.worker_name, "Unknown"), None)
         ELSE IF qr_json.type = "slot"
              THEN Status("EMPTY", TRUE, None, None)
         ELSE Status("ITEM_PRESENT", TRUE, None, None)

\* SlotProcessor.determine_status: (status, alert_triggered, worker_name), or
\* the exception it raises.
determine_status(qr_data) ==
    IF qr_data.form = "None" THEN Status("ITEM_PRESENT", FALSE, None, None)
    ELSE LET qr_json == parse_qr_json(qr_data) IN
         IF ~Truthy(qr_json) THEN Status("ITEM_PRESENT", FALSE, None, None)
         ELSE IF qr_json.form # "object"
              THEN Status(None, FALSE, None, "AttributeError")
         ELSE IF qr_json.type = "worker"
              THEN Status("CHECKED_OUT", FALSE, Get(qr_json.worker_name, "Unknown"), None)
         ELSE IF qr_json.type = "slot"
              THEN Status("EMPTY", TRUE, None, None)
         ELSE Status("ITEM_PRESENT", FALSE, None, None)

\* A slot configuration as SlotProcessor reads it. expected is the slot's
\* own identity (the id of the QR code printed in the slot).
SlotConfig(id, region, expected) ==
    [id |-> id, region |-> region, expected |-> expected]

\* What the frame shows in a slot's region, and whether saving the region
\* image raises.
SlotScene(qr, saveRaises) == [qr |-> qr, saveRaises |-> saveRaises]

SpResult(id, st, qr, wn, alert, err) ==
    [slotId |-> id, status |-> st, qrData |-> qr, workerName |-> wn,
     alertTriggered |-> alert, error |-> err]

\* SlotProcessor.process_slot
SP_process_slot(slot_data, scene) ==
    LET roi == extract_roi(slot_data.region) IN
    IF roi.form = "None"
    THEN SpResult(slot_data.id, "ERROR", NoQr, None, FALSE, "Failed to extract ROI")
    ELSE IF scene.saveRaises
    THEN SpResult(slot_data.id, "ERROR", NoQr, None, FALSE, "cv2.error")
    ELSE LET d == determine_status(scene.qr) IN
         IF d.raised # None
         THEN SpResult(slot_data.id, "ERROR", scene.qr, None, FALSE, d.raised)
         ELSE SpResult(slot_data.id, d.status, scene.qr, d.worker_name, d.alert, None)

----------------------------------------------------------------------------
(* CameraManager (camera_manager.py)                                       *)

\* numpy's a[lo:hi] on an axis of length n: first index and length kept.
SliceStart(lo, n) == IF lo < 0 THEN Max(lo + n, 0) ELSE Min(lo, n)
SliceLen(lo, hi, n) == Max(0, SliceStart(hi, n) - SliceStart(lo, n))

\* CameraManager.extract_slot_roi: None when building the mask raises; else
\* the crop image[y:y+h, x:x+w] is taken with Python's slicing (no clamping
\* of a negative start), and cv2.bitwise_and on an empty crop raises, which
\* the except clause turns into None as well.
extract_slot_roi(region) ==
    IF region.form # "rect" THEN NoRoi
    ELSE LET w == SliceLen(region.x, region.x + region.w, FrameW)
             h == SliceLen(region.y, region.y + region.h, FrameH)
         IN  IF w = 0 \/ h = 0 THEN NoRoi
             ELSE Rect(SliceStart(region.x, FrameW),
                       SliceStart(region.y, FrameH), w, h)

\* A payload detect_qr_codes returns: a dict that passed _validate_qr_data
\* (type is slot or worker, id present).
Payload(type, id, wn) == [type |-> type, id |-> id, worker_name |-> wn]

Payloads ==
    {Payload("slot", "T17", "missing"), Payload("slot", "T99", "missing"),
     Payload("worker", "W1", "Alice"), Payload("worker", "W1", "missing")}

\* A slot configuration as CameraManager reads it: form no_id / no_coords
\* is a dict without that key; expectedQr "missing" is an absent key.
CmConfig(form, region, expected) ==
    [form |-> form, id |-> "S1", region |-> region, expectedQr |-> expected]

CmRegions ==
    {MalformedRegion, Rect(0, 0, 2, 2), Rect(0, 0, 1, 1), Rect(FrameW, 0, 2, 2),
     Rect(0 - 2, 0, 3, 2), Rect(0 - 3, 0, 2, 2)}

CmConfigs ==
    {CmConfig("ok", r, e) : r \in CmRegions, e \in {"missing", "T17"}} \cup
    {CmConfig(f, Rect(0, 0, 2, 2), "T17") : f \in {"no_id", "no_coords"}}

\* SSIMAnalyzer. An image is None (a baseline that is missing) or an array
\* with its numpy shape: (rows, cols) for grey, (rows, cols, 3) for colour.
\* Scores are in hundredths; structural similarity lies in [-1, 1].
Scores == {-5, 0, 50, 100}

Image(shape) == [form |-> "array", shape |-> shape]
NoImage == [form |-> "None", shape |-> <<>>]
target_size == <<200, 200>>

Images ==
    {NoImage, Image(<<200, 200>>), Image(<<3, 4>>), Image(<<5, 6>>),
     Image(<<3, 4, 3>>)}

\* What OpenCV and skimage do during one compare_images call: whether the
\* preprocessing of each image raises, whether the resize of the second
\* image raises, and what ssim does (a score, or "raise").
SsimEnv(pre1, pre2, resize, ssim) ==
    [pre1 |-> pre1, pre2 |-> pre2, resize |-> resize, ssim |-> ssim]

SsimEnvs ==
    {SsimEnv(p1, p2, rs, s) :
        p1 \in {"ok", "raise"}, p2 \in {"ok", "raise"}, rs \in {"ok", "raise"},
        s \in [state : {"ok"}, score : Scores] \cup {[state |-> "raise", score |-> 0]}}

\* SSIMAnalyzer.preprocess_image: the grey image resized to target_size
\* (width, height), or the input itself when anything in the body raises
\* (None has no shape, so it always does).
preprocess_image(image, outcome) ==
    IF image.form = "None" \/ outcome = "raise" THEN image
    ELSE Image(<<target_size[2], target_size[1]>>)

ScoreReturn(score, exc) == [score |-> score, raised |-> exc]

\* compare_images with the handler of lines 83-85 re-raising.
compare_images_Propagates(img1, img2, env) ==
    LET processed_img1 == preprocess_image(img1, env.pre1)
        processed_img2 == preprocess_image(img2, env.pre2)
    IN  IF processed_img1.form = "None" \/ processed_img2.form = "None"
        THEN ScoreReturn(0, "AttributeError")
        ELSE IF processed_img1.shape # processed_img2.shape /\ env.resize = "raise"
        THEN ScoreReturn(0, "cv2.error")
        ELSE IF env.ssim.state = "raise" THEN ScoreReturn(0, "ValueError")
        ELSE ScoreReturn(env.ssim.score, None)

\* SSIMAnalyzer.compare_images: the score returned and the exception raised
\* (never one). The second processed image is resized only when the shapes
\* of the two processed images differ (line 73); reading .shape of None,
\* a resize that raises and an ssim that raises all end in the handler,
\* which returns 0.0.
compare_images(img1, img2, env) ==
    LET processed_img1 == preprocess_image(img1, env.pre1)
        processed_img2 == preprocess_image(img2, env.pre2)
    IN  IF processed_img1.form = "None" \/ processed_img2.form = "None"
        THEN ScoreReturn(0, None)
        ELSE IF processed_img1.shape # processed_img2.shape /\ env.resize = "raise"
        THEN ScoreReturn(0, None)
        ELSE IF env.ssim.state = "raise" THEN ScoreReturn(0, None)
        ELSE ScoreReturn(env.ssim.score, None)

\* A baseline image file data/<slot>_EMPTY.png or _FULL.png: missing, there
\* but unreadable (imread gives None), or readable, with the score
\* compare_images gives for the region against it.
Baseline(state, score) == [state |-> state, score |-> score]

EmptyBaselines ==
    {Baseline("missing", 0), Baseline("unreadable", 0)} \cup
    {Baseline("ok", s) : s \in {0, 80, 81, 91}}

FullBaselines ==
    {Baseline("missing", 0), Baseline("unreadable", 0)} \cup
    {Baseline("ok", s) : s \in {70, 71}}

\* What cv2.Laplacian(gray_roi, cv2.CV_64F).var() gives for the region: the
\* variance, or an exception (cv2.error, MemoryError).
Laplacian(state, var) == [state |-> state, var |-> var]

Laplacians == {Laplacian("ok", 150), Laplacian("ok", 250), Laplacian("raise", 0)}

CmEnv(qr, empty, full, lap) ==
    [qr_results |-> qr, empty |-> empty, full |-> full, laplacian |-> lap]

CmEnvs ==
    {CmEnv(q, e, f, l) :
        q \in SeqUpTo(Payloads, MaxPayloads),
        e \in EmptyBaselines, f \in FullBaselines, l \in Laplacians}

EmptyThreshold == 80    \* result['s_empty'] > 0.8
FullThreshold == 70     \* result['s_full'] > 0.7
QualityCeiling == 200   \* min(200.0, laplacian_var)

CmInitial(id) ==
    [slot_id |-> id, status |-> "UNCERTAIN", present |-> FALSE,
     correct_item |-> FALSE, s_empty |-> 0, s_full |-> 0, pose_quality |-> 0,
     qr_id |-> None, worker_name |-> None, image_path |-> None,
     alert_triggered |-> FALSE]

\* The QR branch of CameraManager.process_slot (lines 152-168).
CmQrBranch(result, qr_results, expected_qr) ==
    LET qr_data == qr_results[1]
        r == [result EXCEPT !.qr_id = qr_data.id]
    IN  IF qr_data.type = "worker"
        THEN [r EXCEPT !.status = "CHECKED_OUT",
                       !.worker_name = Get(qr_data.worker_name, None),
                       !.present = TRUE]
        ELSE IF qr_data.id = Get(expected_qr, None)
        THEN [r EXCEPT !.status = "ITEM_PRESENT", !.present = TRUE,
                       !.correct_item = TRUE]
        ELSE [r EXCEPT !.status = "ITEM_PRESENT", !.present = TRUE,
                       !.correct_item = FALSE]

\* The no-QR branch of CameraManager.process_slot (lines 169-196).
CmBaselineBranch(result, empty, full) ==
    LET r1 == IF empty.state = "missing"
              THEN [result EXCEPT !.status = "UNCALIBRATED_EMPTY"]
              ELSE LET s == IF empty.state = "ok" THEN empty.score ELSE result.s_empty
                   IN  IF s > EmptyThreshold
                       THEN [result EXCEPT !.s_empty = s, !.status = "EMPTY",
                                           !.present = FALSE]
                       ELSE [result EXCEPT !.s_empty = s, !.status = "OCCUPIED_NO_QR",
                                           !.present = TRUE,
                                           !.alert_triggered = TRUE]
    IN  IF full.state = "ok" /\ r1.present
        THEN [r1 EXCEPT !.s_full = full.score,
                        !.correct_item = (full.score > FullThreshold)]
        ELSE r1

\* The classification with the baseline comparison made before the QR
\* results are looked at, for every slot.
CmClassify_CompareFirst(result, slot_config, env) ==
    LET compared == CmBaselineBranch(result, env.empty, env.full)
    IN  IF Len(env.qr_results) > 0
        THEN CmQrBranch(compared, env.qr_results, slot_config.expectedQr)
        ELSE compared

\* The classification of CameraManager.process_slot (lines 152-196).
CmClassify(result, slot_config, env) ==
    IF Len(env.qr_results) > 0
    THEN CmQrBranch(result, env.qr_results, slot_config.expectedQr)
    ELSE CmBaselineBranch(result, env.empty, env.full)

CmReturn(result, exc) == [result |-> result, raised |-> exc]

\* CameraManager.process_slot: the result dict, or the exception raised.
CM_process_slot(slot_config, env) ==
    IF slot_config.form # "ok" THEN CmReturn(CmInitial(None), "KeyError")
    ELSE LET result == CmInitial(slot_config.id)
             roi == extract_slot_roi(slot_config.region)
         IN  IF roi.form = "None" THEN CmReturn(result, None)
             ELSE LET saved == [result EXCEPT !.image_path = "roi.png"]
                      decided == CmClassify(saved, slot_config, env)
                  IN  IF env.laplacian.state = "raise"
                      THEN CmReturn([decided EXCEPT !.status = "UNCERTAIN"], None)
                      ELSE CmReturn([decided EXCEPT
                                        !.pose_quality =
                                            Min(QualityCeiling, env.laplacian.var)],
                                    None)

\* A slot of a camera_manager run: its configuration and what the frame and
\* the baseline files give for it.
CmSlot(cfg, env) == [cfg |-> cfg, env |-> env]

CmRunSlots ==
    {CmSlot(CmConfig("ok", Rect(1, 0, 2, 2), "T17"),
            CmEnv(<<Payload("worker", "W1", "Alice")>>, Baseline("ok", 91),
                  Baseline("ok", 71), Laplacian("raise", 0))),
     CmSlot(CmConfig("ok", Rect(0, 0, 2, 2), "T17"),
            CmEnv(<<>>, Baseline("ok", 91), Baseline("ok", 71), Laplacian("ok", 250))),
     CmSlot(CmConfig("ok", Rect(1, 0, 2, 2), "T17"),
            CmEnv(<<>>, Baseline("ok", 91), Baseline("ok", 71), Laplacian("raise", 0))),
     CmSlot(CmConfig("ok", Rect(0, 0, 2, 2), "T17"),
            CmEnv(<<>>, Baseline("ok", 0), Baseline("ok", 71), Laplacian("ok", 150))),
     CmSlot(CmConfig("ok", Rect(0, 0, 2, 2), "T17"),
            CmEnv(<<Payload("worker", "W1", "Alice")>>, Baseline("missing", 0),
                  Baseline("missing", 0), Laplacian("ok", 150))),
     CmSlot(CmConfig("ok", Rect(FrameW, 0, 2, 2), "T17"),
            CmEnv(<<>>, Baseline("missing", 0), Baseline("missing", 0), Laplacian("ok", 150))),
     CmSlot(CmConfig("no_coords", Rect(0, 0, 2, 2), "T17"),
            CmEnv(<<>>, Baseline("missing", 0), Baseline("missing", 0), Laplacian("ok", 150)))}

\* The slot loop of process_all_slots (lines 234-237): the results, or the
\* exception of the first slot that raises.
RECURSIVE CmSlotLoop(_, _)
CmSlotLoop(slots, acc) ==
    IF slots = <<>> THEN [slots |-> acc, raised |-> None]
    ELSE LET ret == CM_process_slot(Head(slots).cfg, Head(slots).env)
         IN  IF ret.raised # None THEN [slots |-> acc, raised |-> ret.raised]
             ELSE CmSlotLoop(Tail(slots), Append(acc, ret.result))

CmOutput(ok, err, slots, code) ==
    [ok |-> ok, error |-> err, slots |-> slots, exit_code |-> code]

\* CameraManager.process_all_slots: the dict returned, or the exception.
process_all_slots(device, slots) ==
    IF device = "readfail"
    THEN [ret |-> CmOutput(FALSE, "Failed to capture frame", <<>>, 0), raised |-> None]
    ELSE LET loop == CmSlotLoop(slots, <<>>)
         IN  [ret |-> CmOutput(TRUE, "missing", loop.slots, 0), raised |-> loop.raised]

\* main of camera_manager.py: the JSON printed and the exit code. The two
\* failure documents of main carry no 'slots' key; the one process_all_slots
\* returns on a failed read carries an empty list.
camera_manager_main(device, slots) ==
    IF device = "openfail"
    THEN CmOutput(FALSE, "Failed to initialize camera", "missing", 1)
    ELSE LET r == process_all_slots(device, slots)
         IN  IF r.raised # None THEN CmOutput(FALSE, r.raised, "missing", 1)
             ELSE r.ret

----------------------------------------------------------------------------
(* QRDetector (qr_detector.py)                                             *)

\* A Python dict is the sequence of its <<key, value>> pairs in insertion
\* order.
Has(d, k) == \E i \in DOMAIN d : d[i][1] = k
GetItem(d, k) == d[CHOOSE i \in DOMAIN d : d[i][1] = k][2]
Pop(d, k) == SelectSeq(d, LAMBDA pair : pair[1] # k)
SetItem(d, k, v) ==
    IF Has(d, k)
    THEN [i \in DOMAIN d |-> IF d[i][1] = k THEN <<k, v>> ELSE d[i]]
    ELSE Append(d, <<k, v>>)

\* The keys a QR payload holds (those generate_qr_payload writes, and
\* 'hmac'), in the order sort_keys=True puts them. Every key of every
\* payload below is one of these.
KeyOrder ==
    <<"hmac", "id", "nonce", "slot_name", "ts", "type", "version", "worker_name">>

\* json.dumps(d, sort_keys=True): the pairs of d in key order.
Canon(d) ==
    LET keys == SelectSeq(KeyOrder, LAMBDA k : Has(d, k))
    IN  [i \in DOMAIN keys |-> <<keys[i], GetItem(d, keys[i])>>]

\* hmac.new(key, message, sha256).hexdigest(): a different key or a
\* different message gives a different digest.
Mac(key, message) == [key |-> key, message |-> message]

\* The default secret_key of QRDetector and of sign_qr_payload.
SecretKey == "tool_tracker_secret"

\* An 'hmac' value that is no string (a JSON number, list or null):
\* hmac.compare_digest raises TypeError on it.
NotAString == [key |-> "not_a_string", message |-> <<>>]

\* sign_qr_payload
sign_qr_payload(payload, secret_key) ==
    SetItem(payload, "hmac", Mac(secret_key, Canon(payload)))

\* _verify_hmac_signature answering True whenever the comparison does not
\* raise (the result of compare_digest is logged, not returned).
verify_hmac_signature_ResultIgnored(qr_data) ==
    LET provided_hmac == GetItem(qr_data, "hmac")
        popped == Pop(qr_data, "hmac")
    IN  IF provided_hmac = NotAString
        THEN [valid |-> FALSE, qr_data |-> popped]
        ELSE [valid |-> TRUE, qr_data |-> SetItem(popped, "hmac", provided_hmac)]

\* QRDetector._verify_hmac_signature: the answer, and qr_data as the call
\* leaves it (the hmac is popped and, unless compare_digest raises on a
\* value that is no string, put back as the last key).
verify_hmac_signature(qr_data) ==
    LET provided_hmac == GetItem(qr_data, "hmac")
        popped == Pop(qr_data, "hmac")
        expected_hmac == Mac(SecretKey, Canon(popped))
    IN  IF provided_hmac = NotAString
        THEN [valid |-> FALSE, qr_data |-> popped]
        ELSE [valid |-> provided_hmac = expected_hmac,
              qr_data |-> SetItem(popped, "hmac", provided_hmac)]

\* validate_slot_qrs.validate_hmac_signature: the hmac is read with get(),
\* the message is made from a copy without it, and a missing hmac or an
\* exception (compare_digest on a value that is no string) gives False.
validate_hmac_signature(qr_data, secret_key) ==
    IF ~Has(qr_data, "hmac") THEN FALSE
    ELSE LET provided_hmac == GetItem(qr_data, "hmac")
             data_copy == Pop(qr_data, "hmac")
         IN  IF provided_hmac = NotAString THEN FALSE
             ELSE provided_hmac = Mac(secret_key, Canon(data_copy))

\* _validate_qr_data answering False for a payload without an 'hmac' field.
validate_qr_data_RequiresHmac(qr_data) ==
    IF \E f \in {"type", "id", "version", "ts"} : ~Has(qr_data, f)
    THEN [valid |-> FALSE, qr_data |-> qr_data]
    ELSE IF GetItem(qr_data, "type") \notin {"slot", "worker"}
    THEN [valid |-> FALSE, qr_data |-> qr_data]
    ELSE IF Has(qr_data, "hmac") THEN verify_hmac_signature(qr_data)
    ELSE [valid |-> FALSE, qr_data |-> qr_data]

\* QRDetector._validate_qr_data on a dict.
validate_qr_data(qr_data) ==
    IF \E f \in {"type", "id", "version", "ts"} : ~Has(qr_data, f)
    THEN [valid |-> FALSE, qr_data |-> qr_data]
    ELSE IF GetItem(qr_data, "type") \notin {"slot", "worker"}
    THEN [valid |-> FALSE, qr_data |-> qr_data]
    ELSE IF Has(qr_data, "hmac") THEN verify_hmac_signature(qr_data)
    ELSE [valid |-> TRUE, qr_data |-> qr_data]

\* The text of one QR code by what json.loads makes of it: "notjson"
\* (JSONDecodeError), "number" (a JSON number) or "object" with its dict.
Doc(form, d) == [form |-> form, dict |-> d]

\* A decoded payload with the four required fields and no other.
Body(type, id) == <<<<"type", type>>, <<"id", id>>, <<"version", "1.0">>, <<"ts", 1>>>>
Reverse(s) == [i \in DOMAIN s |-> s[Len(s) + 1 - i]]

\* kwargs.get(key, '')
KwGet(kwargs, key) == IF Has(kwargs, key) THEN GetItem(kwargs, key) ELSE ""

\* generate_qr_payload; ts is what int(time.time()) gives and nonce what
\* random.choices draws.
generate_qr_payload(qr_type, qr_id, kwargs, ts, nonce) ==
    LET payload == <<<<"type", qr_type>>, <<"id", qr_id>>, <<"version", "1.0">>,
                     <<"ts", ts>>, <<"nonce", nonce>>>>
    IN  IF qr_type = "slot"
        THEN SetItem(payload, "slot_name", KwGet(kwargs, "slot_name"))
        ELSE IF qr_type = "worker"
        THEN SetItem(payload, "worker_name", KwGet(kwargs, "worker_name"))
        ELSE payload

\* Payloads as generate_qr_payload makes them (two of them differ in the
\* nonce alone), and payloads with the required fields only, in another
\* key order, with a type that is no slot or worker, and without 'ts'.
Bodies ==
    {generate_qr_payload("slot", "T17", <<<<"slot_name", "Bay 1">>>>, 1, "a1b2c3"),
     generate_qr_payload("slot", "T17", <<<<"slot_name", "Bay 1">>>>, 1, "x9y8z7"),
     generate_qr_payload("worker", "W1", <<>>, 1, "a1b2c3"),
     Body("slot", "T17"), Reverse(Body("slot", "T17")), Body("slot", "T99"),
     Append(Body("worker", "W1"), <<"worker_name", "Alice">>),
     Body("tool", "T17"), Pop(Body("slot", "T17"), "ts")}

\* Each body unsigned, signed under the reader's key, signed under another
\* key, carrying the signature of another body, carrying an hmac that is no
\* string, and signed with the hmac as the first key.
Dicts ==
    Bodies \cup
    {sign_qr_payload(b, k) : b \in Bodies, k \in {SecretKey, "other_key"}} \cup
    {SetItem(b, "hmac", Mac(SecretKey, Canon(Body("slot", "T99")))) : b \in Bodies} \cup
    {SetItem(b, "hmac", NotAString) : b \in Bodies} \cup
    {<<<<"hmac", Mac(SecretKey, Canon(b))>>>> \o b : b \in Bodies}

\* The codes pyzbar.decode may find in one preprocessed image of a region.
RegionDocs ==
    {Doc("notjson", <<>>), Doc("number", <<>>),
     Doc("object", Body("slot", "T17")),
     Doc("object", sign_qr_payload(Body("slot", "T17"), SecretKey)),
     Doc("object", sign_qr_payload(Body("slot", "T17"), "other_key")),
     Doc("object", Append(Body("worker", "W1"), <<"worker_name", "Alice">>)),
     Doc("object", Body("tool", "T17")),
     Doc("object", Body("slot", ""))}

\* The inner loop of detect_qr_codes (lines 36-48) over the codes of one
\* image: the results, and whether an exception left both loops (a JSON
\* number makes "field not in qr_data" raise TypeError).
RECURSIVE DecodeCodes(_, _)
DecodeCodes(qr_codes, results) ==
    IF qr_codes = <<>> THEN [results |-> results, raised |-> FALSE]
    ELSE LET doc == Head(qr_codes) IN
         IF doc.form = "notjson" THEN DecodeCodes(Tail(qr_codes), results)
         ELSE IF doc.form = "number" THEN [results |-> results, raised |-> TRUE]
         ELSE LET v == validate_qr_data(doc.dict)
              IN  DecodeCodes(Tail(qr_codes),
                              IF v.valid THEN Append(results, v.qr_data) ELSE results)

\* The outer loop of detect_qr_codes (lines 33-48) over the preprocessed
\* images; images[i] is what pyzbar.decode finds in the i-th of them.
RECURSIVE DecodeImages(_, _)
DecodeImages(images, results) ==
    IF images = <<>> THEN results
    ELSE LET r == DecodeCodes(Head(images), results)
         IN  IF r.raised THEN r.results ELSE DecodeImages(Tail(images), r.results)

\* QRDetector.detect_qr_codes
detect_qr_codes(images) == DecodeImages(images, <<>>)

\* QRDetector.detect_with_opencv; decoded_info is what detectAndDecodeMulti
\* decodes (a JSON number raises TypeError, caught by the outer handler).
detect_with_opencv(decoded_info) == DecodeCodes(decoded_info, <<>>).results

\* The loop of detect_comprehensive that removes duplicates (lines 190-197):
\* a result is kept when its id is truthy (ids are strings here, so not the
\* empty string) and was not seen before.
RECURSIVE Unique(_, _, _)
Unique(all_results, unique_results, seen_ids) ==
    IF all_results = <<>> THEN unique_results
    ELSE LET result == Head(all_results)
             qr_id == GetItem(result, "id")
         IN  IF qr_id # "" /\ qr_id \notin seen_ids
             THEN Unique(Tail(all_results), Append(unique_results, result),
                         seen_ids \cup {qr_id})
             ELSE Unique(Tail(all_results), unique_results, seen_ids)

\* QRDetector.detect_comprehensive
detect_comprehensive(images, decoded_info) ==
    LET pyzbar_results == detect_qr_codes(images)
        all_results == IF pyzbar_results = <<>>
                       THEN detect_with_opencv(decoded_info)
                       ELSE pyzbar_results
    IN  Unique(all_results, <<>>, {})

----------------------------------------------------------------------------
(* ArucoCornerCalibrator (aruco_calibrator.py)                             *)

\* self.corner_ids
corner_ids == {17, 18, 19, 20}

\* Marker identities a frame may show: the corners and two others.
MarkerIds == corner_ids \cup {5, 21}

\* What cv2.aruco.detectMarkers reports for a frame: the ids in the order
\* reported (detection i stands for its corner points), or an exception.
Detection(raises, ids) == [raises |-> raises, ids |-> ids]

\* The dict the loop of detect_corner_markers builds from ids[1..n]: corner
\* ids only, a later detection of an id replacing an earlier one.
RECURSIVE CornerCenters(_, _)
CornerCenters(ids, n) ==
    IF n = 0 THEN <<>>
    ELSE LET prev == CornerCenters(ids, n - 1)
             id == ids[n]
         IN  IF id \in corner_ids
             THEN [k \in (DOMAIN prev) \cup {id} |-> IF k = id THEN n ELSE prev[k]]
             ELSE prev

\* detect_corner_markers with num_detected taken from the number of
\* detections instead of the number of corner centres kept.
detect_corner_markers_CountsAll(det) ==
    IF det.raises \/ Len(det.ids) = 0
    THEN [marker_centers |-> <<>>, num_detected |-> 0]
    ELSE LET mc == CornerCenters(det.ids, Len(det.ids))
         IN  [marker_centers |-> mc, num_detected |-> Len(det.ids)]

\* ArucoCornerCalibrator.detect_corner_markers: (marker_centers, num_detected).
\* marker_centers maps an id to the detection its centre was computed from.
detect_corner_markers(det) ==
    IF det.raises \/ Len(det.ids) = 0
    THEN [marker_centers |-> <<>>, num_detected |-> 0]
    ELSE LET mc == CornerCenters(det.ids, Len(det.ids))
         IN  [marker_centers |-> mc, num_detected |-> Cardinality(DOMAIN mc)]

Homography(ok, h, q, k, d) ==
    [success |-> ok, homography |-> h, quality |-> q, camera_matrix |-> k,
     dist_coeffs |-> d]

HomographyFailure == Homography(FALSE, None, "inf", None, None)

\* calculate_homography with the marker count tested by "< 4" instead of
\* "!= 4": a mapping with a fifth entry is accepted.
calculate_homography_AtLeast4(marker_centers, solver) ==
    IF Cardinality(DOMAIN marker_centers) < 4 THEN HomographyFailure
    ELSE IF corner_ids \ (DOMAIN marker_centers) # {} THEN HomographyFailure
    ELSE IF solver = "raise" THEN HomographyFailure
    ELSE IF solver = "None" THEN HomographyFailure
    ELSE Homography(TRUE, "H", "reprojection_error", "K", "zeros")

\* ArucoCornerCalibrator.calculate_homography. solver is what
\* cv2.findHomography does with the four correspondences: "matrix", "None"
\* (no solution) or "raise".
calculate_homography(marker_centers, solver) ==
    IF Cardinality(DOMAIN marker_centers) # 4 THEN HomographyFailure
    ELSE IF corner_ids \ (DOMAIN marker_centers) # {} THEN HomographyFailure
    ELSE IF solver = "raise" THEN HomographyFailure
    ELSE IF solver = "None" THEN HomographyFailure
    ELSE Homography(TRUE, "H", "reprojection_error", "K", "zeros")

CalibResult(ok, err, n, h, k, d) ==
    [ok |-> ok, error |-> err, markers_detected |-> n, homography_matrix |-> h,
     camera_matrix |-> k, dist_coeffs |-> d]

\* What the camera and OpenCV do during one calibrate_from_camera call.
CalibEnv(device, det, solver) == [device |-> device, det |-> det, solver |-> solver]

\* ArucoCornerCalibrator.calibrate_from_camera: the result dict; a key the
\* dict does not hold is "missing".
calibrate_from_camera(env) ==
    IF env.device = "openfail"
    THEN CalibResult(FALSE, "Could not open camera", 0, "missing", "missing", "missing")
    ELSE IF env.device = "readfail"
    THEN CalibResult(FALSE, "Failed to capture frame from camera", 0,
                     "missing", "missing", "missing")
    ELSE LET d == detect_corner_markers(env.det) IN
         IF d.num_detected = 4
         THEN LET h == calculate_homography(d.marker_centers, env.solver) IN
              IF h.success /\ h.homography # None
              THEN CalibResult(TRUE, "missing", d.num_detected, h.homography,
                               h.camera_matrix, h.dist_coeffs)
              ELSE CalibResult(FALSE, "Failed to calculate homography",
                               d.num_detected, "missing", "missing", "missing")
         ELSE CalibResult(FALSE, "Only detected n/4 corner markers",
                          d.num_detected, "missing", "missing", "missing")

\* What calibrate_from_camera does with the camera device and the frame, in
\* order; the finally clause of lines 304-306 releases a capture object
\* that was created, opened or not.
calibrate_trace(env) ==
    IF env.device = "openfail" THEN <<"open_failed", "release">>
    ELSE IF env.device = "readfail" THEN <<"open", "read", "release">>
    ELSE <<"open", "read", "detect", "release">>

----------------------------------------------------------------------------
(* CameraProcessor and main (process_cameras.py)                           *)

\* An entry of the 'cameras' list with what its device does in this run:
\*   form         "dict", or "not_dict" for an entry that is no JSON object
\*                (a string, a number, a list): it has no get()
\*   id           "missing" when the dict has no (or an empty) 'id',
\*                "unhashable" when the id is a non-empty JSON list or object
\*   homography   whether 'homographyMatrix' is present and non-empty
\*   resolution   whether 'resolution' unpacks into (width, height)
\*   deviceIndex  camera_data.get('deviceIndex', 0): the entries of Cameras
\*                leave the key out, so they all name device 0
\*   device       what the device does when no other handle is open on it:
\*                "ok", "openfail" (isOpened() is false), "readfail"
Camera(id, homography, resolution, device) ==
    [form |-> "dict", id |-> id, homography |-> homography,
     resolution |-> resolution, deviceIndex |-> 0, device |-> device]

NotADict == [Camera("missing", FALSE, FALSE, "ok") EXCEPT !.form = "not_dict"]

Cameras ==
    {Camera("c1", TRUE, TRUE, d) : d \in {"ok", "openfail", "readfail"}} \cup
    {Camera("c1", FALSE, TRUE, "ok"), Camera("c1", TRUE, FALSE, "ok"),
     Camera("c2", TRUE, TRUE, "ok"), Camera("missing", TRUE, TRUE, "ok"),
     Camera("unhashable", TRUE, TRUE, "ok"), NotADict}

\* A configured slot together with what the camera's frame shows in it.
Slot(cfg, scene) == [cfg |-> cfg, scene |-> scene]

Slots ==
    {Slot(SlotConfig("sA", Rect(0, 0, 2, 2), "T17"),
          SlotScene(QrText("object", "slot", "T17", "missing"), FALSE)),
     Slot(SlotConfig("sB", Rect(0, 0, 2, 2), "T17"), SlotScene(NoQr, FALSE)),
     Slot(SlotConfig("sC", Rect(FrameW, 0, 2, 2), "T17"), SlotScene(NoQr, FALSE)),
     Slot(SlotConfig("sD", Rect(0, 0, 2, 2), "T17"),
          SlotScene(QrText("scalar", "missing", "missing", "missing"), FALSE))}

\* The JSON document on stdin: malformed, or cameras, the slots of camera
\* "c1" (slotsByCamera has no other key) and lightStripPin. In the form
\* "slots_not_object" slotsByCamera is a JSON list, which has no get().
\* A pin is None (no lightStripPin key) or the number as text.
RunInput(cams, slots, pin) ==
    [form |-> "ok", cameras |-> cams, slots_c1 |-> slots, lightStripPin |-> pin]

RunInputs ==
    {[form |-> "malformed", cameras |-> <<>>, slots_c1 |-> <<>>, lightStripPin |-> None]}
    \cup
    {RunInput(c, s, p) :
        c \in SeqUpTo(Cameras, MaxCameras),
        s \in SeqUpTo(Slots, MaxSlots),
        p \in {None, "0", "18"}}
    \cup
    {[form |-> "slots_not_object", cameras |-> c, slots_c1 |-> <<>>,
      lightStripPin |-> p] :
        c \in SeqUpTo(Cameras, MaxCameras), p \in {None, "0", "18"}}

\* "if light_strip_pin:": None and the number 0 are false.
PinTruthy(pin) == pin # None /\ pin # "0"

\* slots_by_camera.get(camera_id, [])
SlotsOf(input, camera_id) == IF camera_id = "c1" THEN input.slots_c1 ELSE <<>>

CamResult(id, st, slotResults, errors) ==
    [cameraId |-> id, status |-> st, slotsProcessed |-> Len(slotResults),
     slotResults |-> slotResults, errors |-> errors]

\* The slot loop of process_camera (lines 310-313).
SlotLoop(slots) == [k \in 1..Len(slots) |-> SP_process_slot(slots[k].cfg, slots[k].scene)]

\* process_camera without the return of line 305: a failed read is recorded
\* and the slot loop runs all the same.
process_camera_NoReturnOnReadFailure(camera_data, slots) ==
    IF ~camera_data.homography
    THEN CamResult(camera_data.id, "failed", <<>>, <<"Camera not calibrated">>)
    ELSE IF camera_data.device = "openfail"
    THEN CamResult(camera_data.id, "failed", <<>>, <<"Cannot open camera device">>)
    ELSE IF ~camera_data.resolution
    THEN CamResult(camera_data.id, "failed", <<>>, <<"Processing exception">>)
    ELSE IF camera_data.device = "readfail"
    THEN CamResult(camera_data.id, "failed", SlotLoop(slots), <<"Failed to capture frame">>)
    ELSE CamResult(camera_data.id, "success", SlotLoop(slots), <<>>)

\* CameraProcessor.process_camera
process_camera(camera_data, slots) ==
    IF ~camera_data.homography
    THEN CamResult(camera_data.id, "failed", <<>>, <<"Camera not calibrated">>)
    ELSE IF camera_data.device = "openfail"
    THEN CamResult(camera_data.id, "failed", <<>>, <<"Cannot open camera device">>)
    ELSE IF ~camera_data.resolution
    THEN CamResult(camera_data.id, "failed", <<>>, <<"Processing exception">>)
    ELSE IF camera_data.device = "readfail"
    THEN CamResult(camera_data.id, "failed", <<>>, <<"Failed to capture frame">>)
    ELSE CamResult(camera_data.id, "success", SlotLoop(slots), <<>>)

\* process_camera with a second cap.read() when the first one fails.
DeviceTrace_ReadAgain(camera_data) ==
    IF ~camera_data.homography THEN <<>>
    ELSE IF camera_data.device = "openfail" THEN <<"open_failed">>
    ELSE IF ~camera_data.resolution THEN <<"open">>
    ELSE IF camera_data.device = "readfail" THEN <<"open", "read", "read", "release">>
    ELSE <<"open", "read", "release">>

\* What process_camera does with the camera device (lines 285-299), in
\* order: "open" (cv2.VideoCapture, isOpened() true), "open_failed", "read"
\* (cap.read) and "release" (cap.release). Unpacking a malformed resolution
\* raises after the device was opened and before line 299.
DeviceTrace(camera_data) ==
    IF ~camera_data.homography THEN <<>>
    ELSE IF camera_data.device = "openfail" THEN <<"open_failed">>
    ELSE IF ~camera_data.resolution THEN <<"open">>
    ELSE <<"open", "read", "release">>

\* The device was opened and cap.release() was not called.
Unreleased(trace) ==
    /\ \E i \in DOMAIN trace : trace[i] = "open"
    /\ \A i \in DOMAIN trace : trace[i] # "release"

NoSummary ==
    [status |-> None, camerasCaptured |-> 0, slotsProcessed |-> 0,
     failureCount |-> 0, results |-> <<>>]

RunStart ==
    [pc |-> "start", input |-> RunInput(<<>>, <<>>, None), i |-> 1,
     results |-> <<>>, total_slots |-> 0, total_cameras_success |-> 0,
     total_cameras_failed |-> 0, light |-> <<>>, summary |-> NoSummary,
     stdout |-> None, exit_code |-> 0 - 1, device_log |-> <<>>, handles |-> 0,
     held |-> {}]

\* control_light: the command sent to gpio_controller.py.
control_light(r, state) == [r EXCEPT !.light = Append(@, state)]

\* main, lines 397-402: read and parse stdin; a parse error goes to the
\* handler of lines 419-427.
MainRead(r, input) ==
    IF input.form = "malformed"
    THEN [r EXCEPT !.pc = "exited", !.input = input, !.stdout = "error",
                   !.exit_code = 1]
    ELSE [r EXCEPT !.pc = "light_on", !.input = input]

\* process_all, lines 340-349.
LightOn(r) ==
    LET lit == IF PinTruthy(r.input.lightStripPin) THEN control_light(r, "on") ELSE r
    IN  [lit EXCEPT !.pc = "loop"]

\* The camera as process_camera meets it: a device that would open and read
\* may do anything (busy) while a handle an earlier camera left open on the
\* same device index is still there.
Met(camera, held, busy) ==
    IF camera.device = "ok" /\ camera.deviceIndex \in held
    THEN [camera EXCEPT !.device = busy]
    ELSE camera

\* What the device of the next camera may do: anything when a handle is
\* still open on its index, what the camera entry says otherwise.
Outcomes(r) ==
    IF r.input.cameras[r.i].deviceIndex \in r.held
    THEN {"ok", "openfail", "readfail"}
    ELSE {"ok"}

\* process_all, lines 352-367: one iteration of the camera loop.
\* camera.get (line 353) raises AttributeError on an entry that is no dict,
\* and slots_by_camera.get (line 357) raises TypeError on an unhashable id
\* and AttributeError when slotsByCamera is no object: the exception leaves
\* the loop. A VideoCapture that process_camera leaves unreleased is closed
\* when Python finalizes the object; finalized tells whether that has
\* happened by the time process_camera has returned. handles counts the
\* devices still open and held are their indices.
LoopStep(r, finalized, busy) ==
    LET camera == r.input.cameras[r.i] IN
    IF camera.form = "not_dict" THEN [r EXCEPT !.pc = "raise"]
    ELSE IF camera.id = "missing" THEN [r EXCEPT !.i = @ + 1]
    ELSE IF camera.id = "unhashable" \/ r.input.form = "slots_not_object"
    THEN [r EXCEPT !.pc = "raise"]
    ELSE LET met == Met(camera, r.held, busy)
             result == process_camera(met, SlotsOf(r.input, camera.id))
             trace == DeviceTrace(met)
             left_open == Unreleased(trace) /\ ~finalized
         IN
         [r EXCEPT !.i = @ + 1,
                   !.device_log = Append(@, trace),
                   !.handles = IF left_open THEN @ + 1 ELSE @,
                   !.held = IF left_open THEN @ \cup {camera.deviceIndex} ELSE @,
                   !.results = Append(@, result),
                   !.total_slots = @ + result.slotsProcessed,
                   !.total_cameras_success =
                       IF result.status = "success" THEN @ + 1 ELSE @,
                   !.total_cameras_failed =
                       IF result.status = "success" THEN @ ELSE @ + 1]

\* process_all, lines 368-371: the finally clause. After an exception of the
\* loop body it re-raises into the handler of main (lines 419-427).
LightOff(r) ==
    LET dark == IF PinTruthy(r.input.lightStripPin) THEN control_light(r, "off") ELSE r
    IN  IF r.pc = "raise"
        THEN [dark EXCEPT !.pc = "exited", !.stdout = "error", !.exit_code = 1]
        ELSE [dark EXCEPT !.pc = "aggregate"]

\* process_all, lines 373-378.
OverallStatus(succeeded, failed) ==
    IF failed > 0
    THEN IF succeeded = 0 THEN "failure" ELSE "partial_failure"
    ELSE "success"

\* process_all, lines 373-390.
Aggregate(r) ==
    [r EXCEPT !.pc = "print",
              !.summary =
                  [status |-> OverallStatus(r.total_cameras_success,
                                            r.total_cameras_failed),
                   camerasCaptured |-> r.total_cameras_success,
                   slotsProcessed |-> r.total_slots,
                   failureCount |-> r.total_cameras_failed,
                   results |-> r.results]]

\* main, lines 411-417.
ExitCode(status) ==
    IF status = "failure" THEN 1
    ELSE IF status = "partial_failure" THEN 2
    ELSE 0

\* main, lines 408-417.
MainExit(r) ==
    [r EXCEPT !.pc = "exited", !.stdout = "summary",
              !.exit_code = ExitCode(r.summary.status)]

----------------------------------------------------------------------------
(* Slot QR validation (validate_slot_qrs.py)                               *)

\* The text of a detected QR code: an id, with or without white space
\* around it.
QrData(text, padded) == [text |-> text, padded |-> padded]

QrDatas == {QrData("1", FALSE), QrData("1", TRUE), QrData("2", FALSE), QrData("9", FALSE)}

\* qr['data'].strip()
Strip(data) == data.text

\* An expected slot: the id printed in its QR code and its slotId.
ExpectedSlot(id, slotId) == [id |-> id, slotId |-> slotId]

\* The expected slots of a camera: distinct ids.
ExpectedSlots ==
    {<<>>, <<ExpectedSlot("1", "A1")>>, <<ExpectedSlot("2", "A2")>>,
     <<ExpectedSlot("1", "A1"), ExpectedSlot("2", "A2")>>,
     <<ExpectedSlot("2", "A2"), ExpectedSlot("1", "A1")>>}

\* Lines 112-138 of validate_slot_qrs: the detections whose stripped text is
\* the id of an expected slot, in the order detected.
RECURSIVE ValidSlotQrs(_, _)
ValidSlotQrs(detected_qrs, expected_slots) ==
    IF detected_qrs = <<>> THEN <<>>
    ELSE LET qr_id == Strip(Head(detected_qrs))
             matching == SelectSeq(expected_slots, LAMBDA s : s.id = qr_id)
             rest == ValidSlotQrs(Tail(detected_qrs), expected_slots)
         IN  IF matching # <<>>
             THEN <<[slotId |-> matching[1].slotId, id |-> qr_id]>> \o rest
             ELSE rest

\* Lines 147-152: the expected slots whose id is in no valid detection.
MissingSlots(valid_slot_qrs, expected_slots) ==
    LET detected_slot_ids == {valid_slot_qrs[i].id : i \in DOMAIN valid_slot_qrs}
        missing == SelectSeq(expected_slots, LAMBDA s : s.id \notin detected_slot_ids)
    IN  [i \in DOMAIN missing |-> missing[i].slotId]

\* validate_slot_qrs: the result dict; a key the dict does not hold is
\* "missing". device is what the camera does: "ok", "openfail", "readfail".
validate_slot_qrs(device, detected_qrs, expected_slots, should_detect) ==
    IF device = "openfail"
    THEN [success |-> FALSE, error |-> "Failed to open camera", step |-> "missing",
          detected_count |-> "missing", expected_count |-> "missing",
          missing_slots |-> "missing"]
    ELSE IF device = "readfail"
    THEN [success |-> FALSE, error |-> "Failed to capture frame", step |-> "missing",
          detected_count |-> "missing", expected_count |-> "missing",
          missing_slots |-> "missing"]
    ELSE LET valid_slot_qrs == ValidSlotQrs(detected_qrs, expected_slots) IN
         IF should_detect
         THEN LET success == Len(valid_slot_qrs) = Len(expected_slots)
              IN  [success |-> success, error |-> "missing",
                   step |-> "validate_qrs_visible",
                   detected_count |-> Len(valid_slot_qrs),
                   expected_count |-> Len(expected_slots),
                   missing_slots |-> IF success THEN <<>>
                                     ELSE MissingSlots(valid_slot_qrs, expected_slots)]
         ELSE [success |-> Len(valid_slot_qrs) = 0, error |-> "missing",
               step |-> "validate_qrs_covered",
               detected_count |-> Len(valid_slot_qrs),
               expected_count |-> 0,
               missing_slots |-> "missing"]

----------------------------------------------------------------------------
(* AlertLED (alert_led.py)                                                 *)

\* The flash threads one AlertLED may start in a behaviour.
MaxThreads == 2

\* num_leds, the LEDs of the strip.
NumLeds == 2

AllLeds(colour) == [i \in 1..NumLeds |-> colour]

\* Where a thread stands in one call of _set_all_color: i setPixelColor
\* calls of the loop of lines 60-61 are done; at i = NumLeds show() is next.
IdleCaller == [pc |-> "idle", op |-> None, state |-> FALSE, i |-> 0]
FlashThread(pc) == [pc |-> pc, i |-> 0]

\* An AlertLED before __init__ has run (caller.pc = "new"). has_strip says
\* that self.strip is a PixelStrip and not None; pixels is the buffer
\* setPixelColor writes and strip what the last show() put on the LEDs.
\* threads[t].pc is the position of flash thread t in flash_loop ("test":
\* line 94, "red": line 96, "check": line 99, "off": line 103, "dead":
\* returned); flash_thread is the index of the thread self.flash_thread
\* refers to, 0 for None. caller is where the thread that calls the methods
\* stands, and wrote what its last _set_all_color returned. quiet holds
\* from the return of stop_flash or set_state(False) to the next
\* start_flash or set_state(True). The sleeps of flash_loop and the time
\* join waits are not modelled: any interleaving of the steps is a
\* behaviour.
LedStart ==
    [flashing |-> FALSE, flash_thread |-> 0, threads |-> <<>>,
     has_strip |-> FALSE, pixels |-> AllLeds("off"), strip |-> AllLeds("unset"),
     caller |-> [IdleCaller EXCEPT !.pc = "new"], wrote |-> FALSE,
     quiet |-> FALSE]

\* AlertLED.__init__: the strip is there when rpi_ws281x is available and
\* PixelStrip(...) and begin() do not raise.
AlertLED_init(l, strip_ok) ==
    [l EXCEPT !.has_strip = strip_ok, !.caller = IdleCaller]

\* The step of AlertLED._set_all_color a thread takes after i passes of
\* the loop: nothing without a strip (line 58), one setPixelColor (line
\* 61), or show() (line 62), which may raise (lines 64-66). No lock is held
\* between the steps.
set_all_color(l, i, colour, raises) ==
    IF ~l.has_strip THEN l
    ELSE IF i < NumLeds THEN [l EXCEPT !.pixels[i + 1] = colour]
    ELSE IF raises THEN l
    ELSE [l EXCEPT !.strip = l.pixels]

\* That step is the last one of the call, and what the call returns.
SetAllReturns(l, i) == ~l.has_strip \/ i = NumLeds
SetAllResult(l, i, raises) == l.has_strip /\ i = NumLeds /\ ~raises

Alive(l) == {t \in DOMAIN l.threads : l.threads[t].pc # "dead"}

\* AlertLED.start_flash
start_flash(l) ==
    IF l.flashing THEN [l EXCEPT !.quiet = FALSE]
    ELSE [l EXCEPT !.flashing = TRUE,
                   !.threads = Append(@, FlashThread("test")),
                   !.flash_thread = Len(l.threads) + 1,
                   !.quiet = FALSE]

\* AlertLED.stop_flash, line 112; op is the method the caller is in.
stop_flash_begin(l, op, state) ==
    [l EXCEPT !.flashing = FALSE,
              !.caller = [pc |-> "join", op |-> op, state |-> state, i |-> 0],
              !.quiet = IF op = "set_state" /\ state THEN FALSE ELSE @]

\* AlertLED.stop_flash, lines 113-114: join returns, the thread having
\* ended or the timeout having passed.
stop_flash_joined(l) == [l EXCEPT !.caller.pc = "write_off"]

\* AlertLED.stop_flash, lines 117-119: one step of the write and, after its
\* last step, the return.
stop_flash_end(l, raises) ==
    LET i == l.caller.i
        w == set_all_color(l, i, "off", raises)
    IN  IF ~SetAllReturns(l, i) THEN [w EXCEPT !.caller.i = i + 1]
        ELSE IF l.caller.op = "stop_flash"
        THEN [w EXCEPT !.caller = IdleCaller,
                       !.wrote = SetAllResult(l, i, raises), !.quiet = TRUE]
        ELSE [w EXCEPT !.caller.pc = "write_state", !.caller.i = 0,
                       !.wrote = SetAllResult(l, i, raises)]

\* AlertLED.set_state, lines 129-134: one step of the write and, after its
\* last step, the return.
set_state_end(l, raises) ==
    LET i == l.caller.i
        w == set_all_color(l, i, IF l.caller.state THEN "red" ELSE "off", raises)
    IN  IF ~SetAllReturns(l, i) THEN [w EXCEPT !.caller.i = i + 1]
        ELSE [w EXCEPT !.caller = IdleCaller,
                       !.wrote = SetAllResult(l, i, raises),
                       !.quiet = ~l.caller.state]

\* One step of flash thread t in flash_loop.
flash_loop(l, t, raises) ==
    LET pc == l.threads[t].pc
        i == l.threads[t].i
    IN  IF pc = "test"
        THEN [l EXCEPT !.threads[t] = FlashThread(IF l.flashing THEN "red" ELSE "dead")]
        ELSE IF pc = "check"
        THEN [l EXCEPT !.threads[t] = FlashThread(IF l.flashing THEN "off" ELSE "dead")]
        ELSE LET colour == IF pc = "red" THEN "red" ELSE "off"
                 w == set_all_color(l, i, colour, raises)
             IN  IF ~SetAllReturns(l, i) THEN [w EXCEPT !.threads[t].i = i + 1]
                 ELSE [w EXCEPT !.threads[t] =
                                    FlashThread(IF pc = "red" THEN "check" ELSE "test")]

----------------------------------------------------------------------------
(* State machines                                                          *)

Idle == [fn |-> None]

Init ==
    /\ call = Idle
    /\ calib = Idle
    /\ run = RunStart
    /\ led = LedStart

\* One call of SlotProcessor.process_slot.
SlotProcessorCall ==
    /\ call = Idle
    /\ \E region \in Regions, qr \in QrStrings, saveRaises \in BOOLEAN :
          LET slot_data == SlotConfig("s1", region, "T17")
              scene == SlotScene(qr, saveRaises)
          IN  call' = [fn |-> "SlotProcessor.process_slot",
                       in |-> Slot(slot_data, scene),
                       out |-> SP_process_slot(slot_data, scene),
                       raised |-> None]
    /\ UNCHANGED <<calib, run, led>>

\* One call of CameraManager.process_slot.
CameraManagerCall ==
    /\ call = Idle
    /\ \E slot_config \in CmConfigs, env \in CmEnvs :
          LET ret == CM_process_slot(slot_config, env)
          IN  call' = [fn |-> "CameraManager.process_slot",
                       in |-> [cfg |-> slot_config, env |-> env],
                       out |-> ret.result,
                       raised |-> ret.raised]
    /\ UNCHANGED <<calib, run, led>>

\* One call of QRDetector._validate_qr_data on a decoded dict.
ValidateCall ==
    /\ call = Idle
    /\ \E d \in Dicts :
          call' = [fn |-> "_validate_qr_data", in |-> d,
                   out |-> validate_qr_data(d), raised |-> None]
    /\ UNCHANGED <<calib, run, led>>

\* One call of QRDetector.detect_qr_codes and of detect_comprehensive on a
\* region image.
DetectCall ==
    /\ call = Idle
    /\ \E images \in SeqUpTo(SeqUpTo(RegionDocs, 1), MaxVariants),
          decoded_info \in SeqUpTo(RegionDocs, 1) :
          call' = [fn |-> "detect_qr_codes",
                   in |-> [images |-> images, decoded_info |-> decoded_info],
                   out |-> [qr_codes |-> detect_qr_codes(images),
                            comprehensive |-> detect_comprehensive(images, decoded_info)],
                   raised |-> None]
    /\ UNCHANGED <<calib, run, led>>

\* One call of SSIMAnalyzer.compare_images.
CompareCall ==
    /\ call = Idle
    /\ \E img1 \in Images, img2 \in Images, env \in SsimEnvs :
          LET ret == compare_images(img1, img2, env)
          IN  call' = [fn |-> "compare_images",
                       in |-> [img1 |-> img1, img2 |-> img2, env |-> env],
                       out |-> ret.score,
                       raised |-> ret.raised]
    /\ UNCHANGED <<calib, run, led>>

\* sign_qr_payload on a payload, followed by the validation of the signed
\* payload by a QRDetector with the default key and by
\* validate_hmac_signature with that key.
SignCall ==
    /\ call = Idle
    /\ \E payload \in Dicts, secret_key \in {SecretKey, "other_key"} :
          LET signed == sign_qr_payload(payload, secret_key)
          IN  call' = [fn |-> "sign_qr_payload",
                       in |-> [payload |-> payload, secret_key |-> secret_key],
                       out |-> [signed |-> signed,
                                validated |-> validate_qr_data(signed),
                                standalone |-> validate_hmac_signature(signed, SecretKey)],
                       raised |-> None]
    /\ UNCHANGED <<calib, run, led>>

\* One call of validate_slot_qrs: the camera, the QR codes pyzbar finds in
\* the rectified frame, the expected slots and the step.
ValidateSlotsCall ==
    /\ call = Idle
    /\ \E device \in {"ok", "openfail", "readfail"},
          detected_qrs \in SeqUpTo(QrDatas, MaxDetections),
          expected_slots \in ExpectedSlots,
          should_detect \in BOOLEAN :
          call' = [fn |-> "validate_slot_qrs",
                   in |-> [device |-> device, detected_qrs |-> detected_qrs,
                           expected_slots |-> expected_slots,
                           should_detect |-> should_detect],
                   out |-> validate_slot_qrs(device, detected_qrs, expected_slots,
                                             should_detect),
                   raised |-> None]
    /\ UNCHANGED <<calib, run, led>>

ClassifyNext ==
    \/ SlotProcessorCall \/ CameraManagerCall \/ ValidateCall \/ DetectCall
    \/ CompareCall \/ SignCall \/ ValidateSlotsCall

ClassifySpec == Init /\ [][ClassifyNext]_vars

\* One call of calculate_homography on a marker mapping.
HomographyCall ==
    /\ calib = Idle
    /\ \E keys \in SUBSET MarkerIds, solver \in {"matrix", "None", "raise"} :
          LET marker_centers == [k \in keys |-> 1]
          IN  calib' = [fn |-> "calculate_homography",
                        in |-> [marker_centers |-> marker_centers, solver |-> solver],
                        out |-> calculate_homography(marker_centers, solver)]
    /\ UNCHANGED <<call, run, led>>

\* One call of calibrate_from_camera (one run of aruco_calibrator.py).
CalibrateCall ==
    /\ calib = Idle
    /\ call = Idle
    /\ run.pc = "start"
    /\ \E device \in {"ok", "openfail", "readfail"},
          raises \in BOOLEAN,
          ids \in SeqUpTo(MarkerIds \ {21}, MaxDetections),
          solver \in {"matrix", "None", "raise"} :
          LET env == CalibEnv(device, Detection(raises, ids), solver)
          IN  calib' = [fn |-> "calibrate_from_camera",
                        in |-> env,
                        out |-> calibrate_from_camera(env),
                        trace |-> calibrate_trace(env)]
    /\ UNCHANGED <<call, run, led>>

\* One call of detect_corner_markers on a frame.
DetectMarkersCall ==
    /\ calib = Idle
    /\ \E raises \in BOOLEAN, ids \in SeqUpTo(MarkerIds, MaxDetections) :
          LET det == Detection(raises, ids)
          IN  calib' = [fn |-> "detect_corner_markers",
                        in |-> det,
                        out |-> detect_corner_markers(det)]
    /\ UNCHANGED <<call, run, led>>

CalibNext == HomographyCall \/ CalibrateCall \/ DetectMarkersCall

CalibSpec == Init /\ [][CalibNext]_vars

\* One run of camera_manager.py.
CameraManagerRun ==
    /\ call = Idle
    /\ calib = Idle
    /\ run.pc = "start"
    /\ \E device \in {"ok", "openfail", "readfail"},
          slots \in SeqUpTo(CmRunSlots, MaxSlots) :
          call' = [fn |-> "camera_manager.main",
                   in |-> [device |-> device, slots |-> slots],
                   out |-> camera_manager_main(device, slots),
                   raised |-> None]
    /\ UNCHANGED <<calib, run, led>>

\* One run of process_cameras.py, action by action.
Read ==
    /\ call = Idle
    /\ calib = Idle
    /\ run.pc = "start"
    /\ \E input \in RunInputs : run' = MainRead(run, input)
    /\ UNCHANGED <<call, calib, led>>

SwitchLightOn ==
    /\ run.pc = "light_on"
    /\ run' = LightOn(run)
    /\ UNCHANGED <<call, calib, led>>

ProcessCamera ==
    /\ run.pc = "loop"
    /\ run.i <= Len(run.input.cameras)
    /\ \E finalized \in BOOLEAN, busy \in Outcomes(run) :
          run' = LoopStep(run, finalized, busy)
    /\ UNCHANGED <<call, calib, led>>

SwitchLightOff ==
    /\ \/ run.pc = "loop" /\ run.i > Len(run.input.cameras)
       \/ run.pc = "raise"
    /\ run' = LightOff(run)
    /\ UNCHANGED <<call, calib, led>>

Summarise ==
    /\ run.pc = "aggregate"
    /\ run' = Aggregate(run)
    /\ UNCHANGED <<call, calib, led>>

Exit ==
    /\ run.pc = "print"
    /\ run' = MainExit(run)
    /\ UNCHANGED <<call, calib, led>>

Next == CalibrateCall \/ CameraManagerRun \/ Read \/ SwitchLightOn \/ ProcessCamera \/ SwitchLightOff \/ Summarise \/ Exit

Spec == Init /\ [][Next]_vars

\* The caller of an AlertLED and its flash threads, step by step.
NewAlertLED ==
    /\ led.caller.pc = "new"
    /\ \E strip_ok \in BOOLEAN : led' = AlertLED_init(led, strip_ok)
    /\ UNCHANGED <<call, calib, run>>

StartFlash ==
    /\ led.caller.pc = "idle"
    /\ led.flashing \/ Len(led.threads) < MaxThreads
    /\ led' = start_flash(led)
    /\ UNCHANGED <<call, calib, run>>

StopFlash ==
    /\ led.caller.pc = "idle"
    /\ led' = stop_flash_begin(led, "stop_flash", FALSE)
    /\ UNCHANGED <<call, calib, run>>

SetState ==
    /\ led.caller.pc = "idle"
    /\ \E state \in BOOLEAN : led' = stop_flash_begin(led, "set_state", state)
    /\ UNCHANGED <<call, calib, run>>

\* join returns because there is no thread or the thread has ended.
Join ==
    /\ led.caller.pc = "join"
    /\ led.flash_thread \notin Alive(led)
    /\ led' = stop_flash_joined(led)
    /\ UNCHANGED <<call, calib, run>>

\* join returns after its timeout with the thread still alive.
JoinTimeout ==
    /\ led.caller.pc = "join"
    /\ led.flash_thread \in Alive(led)
    /\ led' = stop_flash_joined(led)
    /\ UNCHANGED <<call, calib, run>>

\* One step of the write of line 117.
WriteOff ==
    /\ led.caller.pc = "write_off"
    /\ \E raises \in BOOLEAN : led' = stop_flash_end(led, raises)
    /\ UNCHANGED <<call, calib, run>>

\* One step of the write of line 130 or 132.
WriteState ==
    /\ led.caller.pc = "write_state"
    /\ \E raises \in BOOLEAN : led' = set_state_end(led, raises)
    /\ UNCHANGED <<call, calib, run>>

FlashStep ==
    /\ \E t \in Alive(led), raises \in BOOLEAN : led' = flash_loop(led, t, raises)
    /\ UNCHANGED <<call, calib, run>>

LedNext ==
    \/ NewAlertLED \/ StartFlash \/ StopFlash \/ SetState \/ Join \/ JoinTimeout
    \/ WriteOff \/ WriteState \/ FlashStep

LedSpec == Init /\ [][LedNext]_vars

----------------------------------------------------------------------------
(* Slot classification: the decision order of the specification against    *)
(* the two classifiers.                                                    *)

\* The call reached QR detection on a region image.
CmDecoded ==
    /\ call.fn = "CameraManager.process_slot"
    /\ call.in.cfg.form = "ok"
    /\ extract_slot_roi(call.in.cfg.region).form = "rect"

SpDecoded ==
    /\ call.fn = "SlotProcessor.process_slot"
    /\ extract_roi(call.in.cfg.region).form = "rect"
    /\ ~call.in.scene.saveRaises

HasWorker(qrs) == \E i \in DOMAIN qrs : qrs[i].type = "worker"
HasOwnSlot(qrs, expected) ==
    \E i \in DOMAIN qrs : qrs[i].type = "slot" /\ qrs[i].id = expected

\* C1: whenever a validated payload of kind worker is among the payloads
\* decoded for a slot, the status is CHECKED_OUT, there is no alert and the
\* worker's name is carried, whatever else was decoded and whatever the
\* baselines and the expected identity are.
C1_WorkerPayloadYieldsCheckedOut ==
    /\ (CmDecoded /\ HasWorker(call.in.env.qr_results)) =>
          /\ call.out.status = "CHECKED_OUT"
          /\ ~call.out.alert_triggered
          /\ \E i \in DOMAIN call.in.env.qr_results :
                /\ call.in.env.qr_results[i].type = "worker"
                /\ call.out.worker_name =
                       Get(call.in.env.qr_results[i].worker_name, None)
    /\ (SpDecoded /\ call.in.scene.qr.form = "object"
                  /\ call.in.scene.qr.type = "worker") =>
          /\ call.out.status = "CHECKED_OUT"
          /\ ~call.out.alertTriggered
          /\ call.out.workerName = Get(call.in.scene.qr.worker_name, "Unknown")

\* C2: with no worker payload, a slot payload carrying the slot's own
\* identity gives EMPTY with an alert, and a slot payload gives EMPTY only
\* when its identity is the slot's own.
C2_OwnSlotPayloadYieldsEmpty ==
    /\ (CmDecoded /\ ~HasWorker(call.in.env.qr_results)
                  /\ HasOwnSlot(call.in.env.qr_results, call.in.cfg.expectedQr)) =>
          (call.out.status = "EMPTY" /\ call.out.alert_triggered)
    /\ (SpDecoded /\ call.in.scene.qr.form = "object"
                  /\ call.in.scene.qr.type = "slot") =>
          /\ call.in.scene.qr.id = call.in.cfg.expected =>
                (call.out.status = "EMPTY" /\ call.out.alertTriggered)
          /\ call.out.status = "EMPTY" =>
                call.in.scene.qr.id = call.in.cfg.expected

\* C3: a decoded payload that is neither a worker payload nor a slot payload
\* with the slot's expected identity gives WRONG_ITEM with an alert.
C3_OtherPayloadYieldsWrongItem ==
    /\ (CmDecoded /\ Len(call.in.env.qr_results) > 0
                  /\ ~HasWorker(call.in.env.qr_results)
                  /\ ~HasOwnSlot(call.in.env.qr_results, call.in.cfg.expectedQr)) =>
          (call.out.status = "WRONG_ITEM" /\ call.out.alert_triggered)
    /\ (SpDecoded /\ call.in.scene.qr.form = "object"
                  /\ call.in.scene.qr.type # "worker"
                  /\ ~(call.in.scene.qr.type = "slot"
                       /\ call.in.scene.qr.id = call.in.cfg.expected)) =>
          (call.out.status = "WRONG_ITEM" /\ call.out.alertTriggered)

\* C4: with no marker decodable and the baseline images missing, the status
\* is ITEM_PRESENT and there is no alert.
C4_MissingBaselinesYieldItemPresent ==
    /\ (CmDecoded /\ Len(call.in.env.qr_results) = 0
                  /\ call.in.env.empty.state = "missing"
                  /\ call.in.env.full.state = "missing") =>
          (call.out.status = "ITEM_PRESENT" /\ ~call.out.alert_triggered)
    /\ (SpDecoded /\ call.in.scene.qr.form = "None") =>
          (call.out.status = "ITEM_PRESENT" /\ ~call.out.alertTriggered)

\* C5: with no payload decodable and a similarity to the empty baseline above
\* the high threshold (0.85), the status is EMPTY and the alert flag is set.
C5_HighEmptySimilarityYieldsEmptyAlert ==
    (CmDecoded /\ Len(call.in.env.qr_results) = 0
               /\ call.in.env.empty.state = "ok"
               /\ call.in.env.empty.score > 85) =>
        (call.out.status = "EMPTY" /\ call.out.alert_triggered)

\* The slot could not be processed: no region, or an exception on the way.
CmSlotError ==
    /\ call.fn = "CameraManager.process_slot"
    /\ ~CmDecoded

SpSlotError ==
    /\ call.fn = "SlotProcessor.process_slot"
    /\ \/ ~SpDecoded
       \/ call.in.scene.qr.form = "scalar"

HasErrorDetail(obs) == "error" \in DOMAIN obs /\ obs.error # None

\* C9: a slot-local error (no region, a failed decode, a malformed slot
\* configuration) is never raised to the caller: it is recorded on the
\* slot's observation as an error status with error detail.
C9_SlotErrorsAreRecordedNotRaised ==
    /\ call.fn # None => call.raised = None
    /\ CmSlotError =>
          (call.out.status \in {"UNCERTAIN", "ERROR"} /\ HasErrorDetail(call.out))
    /\ SpSlotError =>
          (call.out.status \in {"UNCERTAIN", "ERROR"} /\ HasErrorDetail(call.out))

----------------------------------------------------------------------------
(* Calibration                                                             *)

\* The corner identities among the detections of a calibration call.
DetectedCorners(env) ==
    IF env.det.raises THEN {}
    ELSE {env.det.ids[i] : i \in DOMAIN env.det.ids} \cap corner_ids

\* C7: a homography comes only from exactly the corner identities
\* {17, 18, 19, 20}. calculate_homography fails, with no matrix, no camera
\* matrix and no distortion coefficients, for a mapping that lacks a corner
\* or has another number of entries; calibrate_from_camera then answers
\* ok = false with an error and no homography_matrix; ok = true implies
\* markers_detected = 4.
C7_HomographyOnlyFromAllFourCorners ==
    /\ (calib.fn = "calculate_homography"
        /\ \/ corner_ids \ (DOMAIN calib.in.marker_centers) # {}
           \/ Cardinality(DOMAIN calib.in.marker_centers) # 4) =>
          /\ ~calib.out.success
          /\ calib.out.homography = None
          /\ calib.out.camera_matrix = None
          /\ calib.out.dist_coeffs = None
    /\ (calib.fn = "calibrate_from_camera"
        /\ DetectedCorners(calib.in) # corner_ids) =>
          /\ ~calib.out.ok
          /\ calib.out.error # "missing"
          /\ calib.out.homography_matrix = "missing"
    /\ (calib.fn = "calibrate_from_camera" /\ calib.out.ok) =>
          /\ calib.out.markers_detected = 4
          /\ calib.in.device = "ok"
          /\ DetectedCorners(calib.in) = corner_ids

\* Four markers are detected in the frame, one of them no corner marker.
C7_Witness ==
    /\ calib.fn = "calibrate_from_camera"
    /\ calib.in.device = "ok"
    /\ ~calib.in.det.raises
    /\ Len(calib.in.det.ids) = 4
    /\ Cardinality(DetectedCorners(calib.in)) = 3
    /\ calib.in.solver = "matrix"
    /\ ~calib.out.ok
    /\ calib.out.markers_detected = 3

----------------------------------------------------------------------------
(* The batch run                                                           *)

\* The loop body raises on the entry (lines 353, 357).
Raises(camera) == camera.form = "not_dict" \/ camera.id = "unhashable"

HasId(camera) == camera.form = "dict" /\ camera.id # "missing"

\* The cameras of the list that process_all hands to process_camera.
Processed(cams) == SelectSeq(cams, HasId)

\* The number of results recorded once cameras 1..k have been handled.
ResultIndex(cams, k) == Len(Processed(SubSeq(cams, 1, k)))

\* What each camera of the list gives when it is processed on its own.
RECURSIVE Alone(_, _)
Alone(input, cams) ==
    IF cams = <<>> THEN <<>>
    ELSE LET rest == Alone(input, Tail(cams))
             camera == Head(cams)
         IN  IF HasId(camera)
             THEN <<process_camera(camera, SlotsOf(input, camera.id))>> \o rest
             ELSE rest

Running == run.pc \in {"loop", "aggregate", "print"} \/ (run.pc = "exited" /\ run.stdout = "summary")

SlotFailed(results) ==
    \E k \in DOMAIN results : \E j \in DOMAIN results[k].slotResults :
        results[k].slotResults[j].status = "ERROR"
CameraFailed(results) == \E k \in DOMAIN results : results[k].status = "failed"
CameraSucceeded(results) == \E k \in DOMAIN results : results[k].status = "success"

\* C6: exit 0 / 'success' only when every camera and every slot succeeded,
\* exit 2 / 'partial_failure' when some cameras or slots failed and others
\* succeeded, exit 1 / 'failure' when nothing succeeded or the script failed.
C6_ExitCodeConvention ==
    run.pc = "exited" =>
        /\ run.exit_code \in {0, 1, 2}
        /\ run.stdout = "error" => run.exit_code = 1
        /\ run.stdout = "summary" =>
              /\ run.exit_code = 0 <=> run.summary.status = "success"
              /\ run.exit_code = 2 <=> run.summary.status = "partial_failure"
              /\ run.exit_code = 1 <=> run.summary.status = "failure"
              /\ run.exit_code = 0 =>
                    (~CameraFailed(run.results) /\ ~SlotFailed(run.results))
              /\ run.exit_code = 2 =>
                    /\ CameraFailed(run.results) \/ SlotFailed(run.results)
                    /\ CameraSucceeded(run.results)
              /\ run.exit_code = 1 => ~CameraSucceeded(run.results)

\* C8: for every list of cameras, a camera that fails (an exception raised
\* while it is handled included) stops no later camera: the loop is not
\* left before every camera has been handled, what is recorded for each
\* camera is what that camera gives when it is processed on its own, and
\* the aggregate is made once every camera has been processed.
C8_BulkheadIsolation ==
    run.input.form = "ok" =>
        LET cams == run.input.cameras
            done == SubSeq(cams, 1, run.i - 1)
        IN  /\ run.pc # "raise"
            /\ run.results = Alone(run.input, done)
            /\ run.pc \in {"print", "exited"} =>
                  /\ run.i = Len(cams) + 1
                  /\ run.pc = "exited" => run.stdout = "summary"
                  /\ Len(run.summary.results) = Len(Processed(cams))
                  /\ run.summary.results = run.results

\* The device of the camera cannot be opened, or its frame read fails.
CaptureFailure(camera) ==
    /\ HasId(camera)
    /\ camera.homography
    /\ \/ camera.device = "openfail"
       \/ camera.resolution /\ camera.device = "readfail"

\* C10: a capture failure marks the camera's run failed with a non-empty
\* errors list and no slot observations, and is recorded in the aggregate
\* instead of being propagated: the other cameras complete.
C10_CaptureFailureIsRecorded ==
    /\ (call.fn = "camera_manager.main" /\ call.in.device # "ok") =>
          /\ ~call.out.ok
          /\ call.out.error # "missing"
          /\ call.in.device = "readfail" => call.out.slots = <<>>
          /\ call.in.device = "openfail" => call.out.slots = "missing"
    /\ Running =>
        LET cams == run.input.cameras IN
        \A k \in 1..(run.i - 1) :
            CaptureFailure(cams[k]) =>
                LET result == run.results[ResultIndex(cams, k)] IN
                /\ result.cameraId = cams[k].id
                /\ result.status = "failed"
                /\ result.errors # <<>>
                /\ result.slotsProcessed = 0
                /\ result.slotResults = <<>>
                /\ run.total_cameras_failed >= 1
                /\ run.pc = "exited" =>
                      /\ run.summary.results[ResultIndex(cams, k)] = result
                      /\ run.summary.failureCount >= 1
                      /\ run.summary.status \in {"failure", "partial_failure"}
                      /\ run.exit_code \in {1, 2}
                      /\ Len(run.summary.results) = Len(Processed(cams))

\* The run ended; the frame read of the first camera failed, its slots are
\* configured, and the camera after it was processed.
C10_Witness ==
    /\ run.pc = "exited"
    /\ Len(run.input.cameras) = 2
    /\ run.input.cameras[1] = Camera("c1", TRUE, TRUE, "readfail")
    /\ Len(run.input.slots_c1) = 2
    /\ run.input.cameras[2].device = "ok"
    /\ Len(run.results) = 2
    /\ run.results[1].status = "failed"
    /\ run.results[2].status = "success"
    /\ run.summary.status = "partial_failure"
    /\ run.exit_code = 2

----------------------------------------------------------------------------
(* Error reporting                                                         *)

\* The slot of a camera_manager run could not be processed: its region
\* cannot be extracted.
CmRunSlotFailed(slot) ==
    \/ slot.cfg.form # "ok"
    \/ extract_slot_roi(slot.cfg.region).form # "rect"

\* C11: nothing is silently dropped. Every camera of the run input has a
\* result in the run output and is counted in the totals, a failed camera
\* carries its errors, and every slot that could not be processed has an
\* observation with error detail.
C11_NothingSilentlyDropped ==
    /\ (run.pc = "exited" /\ run.stdout = "summary") =>
          /\ Len(run.summary.results) = Len(run.input.cameras)
          /\ run.summary.camerasCaptured + run.summary.failureCount
                 = Len(run.input.cameras)
          /\ \A k \in DOMAIN run.summary.results :
                LET result == run.summary.results[k] IN
                /\ result.status = "failed" => result.errors # <<>>
                /\ \A j \in DOMAIN result.slotResults :
                      result.slotResults[j].status = "ERROR" =>
                          HasErrorDetail(result.slotResults[j])
    /\ (call.fn = "camera_manager.main" /\ call.in.device = "ok") =>
          /\ call.out.ok
          /\ Len(call.out.slots) = Len(call.in.slots)
          /\ \A j \in DOMAIN call.out.slots :
                CmRunSlotFailed(call.in.slots[j]) =>
                    HasErrorDetail(call.out.slots[j])

----------------------------------------------------------------------------
(* The coded-marker reader                                                 *)

\* The payload carries an hmac that is the MAC, under the reader's key, of
\* its other fields in key order.
MacOk(payload) ==
    GetItem(payload, "hmac") = Mac(SecretKey, Canon(Pop(payload, "hmac")))

AllOf(seq, P(_)) == \A i \in DOMAIN seq : P(seq[i])
SignedImpliesMacOk(payload) == Has(payload, "hmac") => MacOk(payload)

\* C12: the reader returns no payload that carries an hmac field unless the
\* hmac is the HMAC-SHA256, under the reader's key, of the other fields in
\* key order; a payload whose hmac differs, or whose check raises, is
\* rejected by _validate_qr_data and is in no list the reader returns.
C12_SignedPayloadsAreVerified ==
    /\ (call.fn = "_validate_qr_data" /\ Has(call.in, "hmac")) =>
          /\ call.out.valid => MacOk(call.in)
          /\ ~MacOk(call.in) => ~call.out.valid
          /\ call.out.valid => MacOk(call.out.qr_data)
    /\ call.fn = "detect_qr_codes" =>
          /\ AllOf(call.out.qr_codes, SignedImpliesMacOk)
          /\ AllOf(call.out.comprehensive, SignedImpliesMacOk)

\* A payload signed under another key, one with another payload's signature
\* and one whose hmac is no string were each rejected, and a region showed a
\* rightly signed code next to a code signed under another key.
C12_Witness ==
    /\ call.fn = "detect_qr_codes"
    /\ Len(call.in.images) = 2
    /\ call.in.images[1] = <<Doc("object", sign_qr_payload(Body("slot", "T17"), "other_key"))>>
    /\ call.in.images[2] = <<Doc("object", sign_qr_payload(Body("slot", "T17"), SecretKey))>>
    /\ Len(call.out.qr_codes) = 1
    /\ Has(call.out.qr_codes[1], "hmac")

\* The identities of a list of payloads, in order.
Ids(payloads) == [i \in DOMAIN payloads |-> GetItem(payloads[i], "id")]
NoDuplicateIds(payloads) ==
    \A i, j \in DOMAIN payloads :
        GetItem(payloads[i], "id") = GetItem(payloads[j], "id") => i = j

\* The payloads of a list that carry an identity (an id that is not empty).
Identified(payloads) == SelectSeq(payloads, LAMBDA p : GetItem(p, "id") # "")

\* C13: a payload list the reader returns for a region holds at most one
\* payload per identity, the first occurrence of each identity; this holds
\* for the list of detect_qr_codes, which is the one the slot classifier
\* of CameraManager consumes, and for the list of detect_comprehensive.
C13_OnePayloadPerIdentity ==
    call.fn = "detect_qr_codes" =>
        /\ NoDuplicateIds(call.out.qr_codes)
        /\ NoDuplicateIds(call.out.comprehensive)
        /\ Identified(call.out.qr_codes) # <<>> =>
              /\ call.out.comprehensive # <<>>
              /\ call.out.comprehensive[1] = Identified(call.out.qr_codes)[1]
              /\ {Ids(call.out.comprehensive)[i] : i \in DOMAIN call.out.comprehensive}
                     = {Ids(Identified(call.out.qr_codes))[i] :
                            i \in DOMAIN Identified(call.out.qr_codes)}

----------------------------------------------------------------------------
(* Determinism of the classification                                       *)

\* The inputs of the classification of CameraManager: the decoded payloads,
\* the similarity scores, the expected identity and which baselines exist.
CmTuple(slot) ==
    <<slot.env.qr_results,
      IF slot.env.empty.state = "ok" THEN slot.env.empty.score ELSE 0,
      IF slot.env.full.state = "ok" THEN slot.env.full.score ELSE 0,
      slot.cfg.expectedQr,
      slot.env.empty.state # "missing", slot.env.full.state # "missing">>

SpClassified(slot) ==
    /\ extract_roi(slot.cfg.region).form = "rect"
    /\ ~slot.scene.saveRaises

\* C14: classification is deterministic and pure. Two slots that were
\* classified from the same decoded payload, similarity scores, expected
\* identity and baselines present are reported with the same status and
\* the same alert flag, whatever else differs between them, whatever was
\* classified before them and in whatever order they come.
C14_ClassificationIsDeterministic ==
    /\ (call.fn = "camera_manager.main" /\ call.out.ok) =>
          \A i, j \in DOMAIN call.out.slots :
              LET a == call.in.slots[i]
                  b == call.in.slots[j]
              IN  (CmTuple(a) = CmTuple(b) /\ ~CmRunSlotFailed(a) /\ ~CmRunSlotFailed(b)) =>
                      /\ call.out.slots[i].status = call.out.slots[j].status
                      /\ call.out.slots[i].alert_triggered
                             = call.out.slots[j].alert_triggered
    /\ Running =>
          \A k, l \in DOMAIN run.results :
              \A i \in DOMAIN run.results[k].slotResults :
                  \A j \in DOMAIN run.results[l].slotResults :
                      LET a == run.input.slots_c1[i]
                          b == run.input.slots_c1[j]
                      IN  (a.scene.qr = b.scene.qr /\ SpClassified(a) /\ SpClassified(b)) =>
                              /\ run.results[k].slotResults[i].status
                                     = run.results[l].slotResults[j].status
                              /\ run.results[k].slotResults[i].alertTriggered
                                     = run.results[l].slotResults[j].alertTriggered

----------------------------------------------------------------------------
(* Statuses                                                                *)

\* The five statuses of the slot classifier; the fifth, the error status,
\* is written UNCERTAIN, PROCESSING_ERROR or (by SlotProcessor) ERROR.
SlotStatuses ==
    {"ITEM_PRESENT", "EMPTY", "CHECKED_OUT", "WRONG_ITEM",
     "UNCERTAIN", "PROCESSING_ERROR", "ERROR"}

\* C15: the status of every slot observation is one of the five statuses of
\* the slot classifier; no path of slot processing emits another status.
C15_StatusInClosedSet ==
    (call.fn \in {"SlotProcessor.process_slot", "CameraManager.process_slot"}
     /\ call.raised = None) =>
        call.out.status \in SlotStatuses

----------------------------------------------------------------------------
(* Image quality                                                           *)

\* C16: the quality score is computed for and attached to every slot
\* observation, is never above the ceiling of 200, and never affects the
\* status: the status is the same whether the quality computation succeeds
\* or raises, and whatever value it yields.
C16_QualityNeverAffectsStatus ==
    /\ call.fn = "SlotProcessor.process_slot" => "pose_quality" \in DOMAIN call.out
    /\ (call.fn = "CameraManager.process_slot" /\ call.raised = None) =>
        /\ call.out.pose_quality <= QualityCeiling
        /\ (CmDecoded /\ call.in.env.laplacian.state = "ok") =>
              call.out.pose_quality = Min(QualityCeiling, call.in.env.laplacian.var)
        /\ \A l \in Laplacians :
              CM_process_slot(call.in.cfg, [call.in.env EXCEPT !.laplacian = l]).result.status
                  = call.out.status

----------------------------------------------------------------------------
(* Region extraction                                                       *)

\* The polygon has no area, or no pixel of it lies in the frame.
ZeroArea(region) == region.w = 1 \/ region.h = 1
OutOfFrame(region) ==
    \/ region.x + region.w <= 0 \/ region.x >= FrameW
    \/ region.y + region.h <= 0 \/ region.y >= FrameH
Degenerate(region) == region.form = "rect" /\ (ZeroArea(region) \/ OutOfFrame(region))

\* C17: for a degenerate polygon (zero area, or outside the frame) region
\* extraction yields no region and the slot is marked as errored; no crop
\* of another part of the frame is returned for it.
C17_DegeneratePolygonsAreErrors ==
    /\ (call.fn = "SlotProcessor.process_slot" /\ Degenerate(call.in.cfg.region)) =>
          /\ extract_roi(call.in.cfg.region) = NoRoi
          /\ call.out.status = "ERROR"
          /\ call.out.error # None
    /\ (call.fn = "CameraManager.process_slot" /\ call.in.cfg.form = "ok"
        /\ Degenerate(call.in.cfg.region)) =>
          /\ extract_slot_roi(call.in.cfg.region) = NoRoi
          /\ call.out.status = "UNCERTAIN"

----------------------------------------------------------------------------
(* Similarity as a fallback                                                *)

\* C18: the similarity comparator is a fallback only. When the reader
\* returns at least one payload for a slot, no baseline is compared and the
\* similarity scores of the observation keep their initial value 0.0; a
\* score is set only when no payload was decoded, from a baseline that
\* exists.
C18_SimilarityOnlyWithoutMarker ==
    (call.fn = "CameraManager.process_slot" /\ call.raised = None) =>
        /\ Len(call.in.env.qr_results) > 0 =>
              /\ call.out.s_empty = CmInitial(call.in.cfg.id).s_empty
              /\ call.out.s_full = CmInitial(call.in.cfg.id).s_full
        /\ call.out.s_empty # 0 =>
              /\ CmDecoded
              /\ Len(call.in.env.qr_results) = 0
              /\ call.in.env.empty.state = "ok"
              /\ call.out.s_empty = call.in.env.empty.score
        /\ call.out.s_full # 0 =>
              /\ CmDecoded
              /\ Len(call.in.env.qr_results) = 0
              /\ call.in.env.full.state = "ok"
              /\ call.out.s_full = call.in.env.full.score

\* A payload was decoded for a slot whose two baselines exist and resemble
\* the region; the scores stayed at 0.
C18_Witness ==
    /\ call.fn = "CameraManager.process_slot"
    /\ CmDecoded
    /\ Len(call.in.env.qr_results) > 0
    /\ call.in.env.empty = Baseline("ok", 91)
    /\ call.in.env.full = Baseline("ok", 71)
    /\ call.in.env.laplacian.state = "ok"
    /\ call.out.status = "ITEM_PRESENT"
    /\ call.out.s_empty = 0
    /\ call.out.s_full = 0

----------------------------------------------------------------------------
(* The camera device                                                       *)

Count(trace, e) == Cardinality({i \in DOMAIN trace : trace[i] = e})

\* Every device the trace opens is released by a later cap.release().
ReleasedAfterOpen(trace) ==
    \A i \in DOMAIN trace :
        trace[i] = "open" => \E j \in DOMAIN trace : j > i /\ trace[j] = "release"

\* C19: no two acquisitions are open at the same time. process_camera
\* releases the device it opened before it returns on every path (success,
\* failed read, exception), so no handle is open between two cameras of a
\* run; calibrate_from_camera releases its device as well.
C19_DeviceReleasedOnEveryPath ==
    /\ Running =>
          /\ run.handles = 0
          /\ \A k \in DOMAIN run.device_log : ReleasedAfterOpen(run.device_log[k])
    /\ calib.fn = "calibrate_from_camera" => ReleasedAfterOpen(calib.trace)

\* C20: no automatic retries. In a run each camera gets at most one device
\* open and at most one frame read, and a failed open or read ends the
\* camera's attempt with a failure result; a calibration attempt opens the
\* device once, reads exactly one frame when the device opened and runs
\* marker detection at most once, and a failed open, read or detection
\* gives ok = false with nothing tried again.
C20_NoAutomaticRetries ==
    /\ Running =>
          /\ Len(run.device_log) = Len(run.results)
          /\ \A k \in DOMAIN run.device_log :
                LET trace == run.device_log[k]
                    camera == Processed(run.input.cameras)[k]
                IN
                /\ Count(trace, "open") + Count(trace, "open_failed") <= 1
                /\ Count(trace, "read") <= 1
                /\ Count(trace, "open_failed") = 1 =>
                      (Count(trace, "read") = 0 /\ run.results[k].status = "failed")
                /\ (CaptureFailure(camera) /\ camera.device = "readfail") =>
                      /\ Count(trace, "open") = 1
                      /\ Count(trace, "read") = 1
                      /\ run.results[k].status = "failed"
    /\ calib.fn = "calibrate_from_camera" =>
          /\ Count(calib.trace, "open") + Count(calib.trace, "open_failed") = 1
          /\ Count(calib.trace, "read") = Count(calib.trace, "open")
          /\ Count(calib.trace, "detect") <= 1
          /\ calib.out.ok => Count(calib.trace, "detect") = 1
          /\ calib.in.device # "ok" =>
                (~calib.out.ok /\ Count(calib.trace, "detect") = 0)
          /\ (calib.in.device = "ok" /\ DetectedCorners(calib.in) # corner_ids) =>
                ~calib.out.ok

\* The run ended; the frame read of the first camera failed after one open
\* and one read, and the second camera, on the same id, was read once.
C20_Witness ==
    /\ run.pc = "exited"
    /\ Len(run.device_log) = 2
    /\ run.input.cameras[1] = Camera("c1", TRUE, TRUE, "readfail")
    /\ run.input.cameras[2] = Camera("c1", TRUE, TRUE, "ok")
    /\ run.device_log[1] = <<"open", "read", "release">>
    /\ run.results[1].status = "failed"
    /\ run.results[2].status = "success"

----------------------------------------------------------------------------
(* The Marker Locator                                                      *)

\* C21: detect_corner_markers always returns a pair (mapping, count): the
\* keys of the mapping are corner identities, the count is the size of the
\* mapping, and the pair is ({}, 0) when detectMarkers reports nothing or
\* an exception is raised inside the method.
C21_MarkerLocatorNeverRaises ==
    calib.fn = "detect_corner_markers" =>
        /\ DOMAIN calib.out.marker_centers \subseteq corner_ids
        /\ calib.out.num_detected = Cardinality(DOMAIN calib.out.marker_centers)
        /\ (calib.in.raises \/ Len(calib.in.ids) = 0) =>
              /\ calib.out.marker_centers = <<>>
              /\ calib.out.num_detected = 0

\* A frame with a corner marker seen twice, another corner and a marker
\* that is no corner: two centres are kept.
C21_Witness ==
    /\ calib.fn = "detect_corner_markers"
    /\ ~calib.in.raises
    /\ Len(calib.in.ids) = 4
    /\ \E i \in 1..4 : calib.in.ids[i] \notin corner_ids
    /\ calib.out.num_detected = 2
    /\ DOMAIN calib.out.marker_centers \subseteq corner_ids

----------------------------------------------------------------------------
(* The Similarity Comparator                                               *)

\* The comparison of a compare_images call cannot be carried out: an image
\* is missing, the resize of differently shaped images raises, or ssim
\* raises.
ComparisonFails(in) ==
    \/ in.img1.form = "None"
    \/ in.img2.form = "None"
    \/ /\ preprocess_image(in.img1, in.env.pre1).shape
             # preprocess_image(in.img2, in.env.pre2).shape
       /\ in.env.resize = "raise"
    \/ in.env.ssim.state = "raise"

\* C22: compare_images raises nothing and returns a score; the score is 0.0
\* when the baseline is missing or the comparison cannot be carried out,
\* and the score ssim computed otherwise. A slot that CameraManager
\* processes with a baseline file missing is reported with 0.0 for the
\* similarity to that baseline.
C22_ComparatorNeverFails ==
    /\ call.fn = "compare_images" =>
          /\ call.raised = None
          /\ call.out \in Scores
          /\ ComparisonFails(call.in) => call.out = 0
          /\ ~ComparisonFails(call.in) => call.out = call.in.env.ssim.score
    /\ (call.fn = "CameraManager.process_slot" /\ call.raised = None) =>
          /\ call.in.env.empty.state = "missing" => call.out.s_empty = 0
          /\ call.in.env.full.state = "missing" => call.out.s_full = 0

\* A comparison against a missing baseline returned 0.0 although ssim would
\* have given a score.
C22_Witness ==
    /\ call.fn = "compare_images"
    /\ call.in.img1.form = "array"
    /\ call.in.img2.form = "None"
    /\ call.in.env.ssim.state = "ok"
    /\ call.in.env.ssim.score = 100
    /\ call.out = 0
    /\ call.raised = None

----------------------------------------------------------------------------
(* The light strip                                                         *)

\* The frames captured so far in the run (cap.read calls).
Captured(r) ==
    \E k \in DOMAIN r.device_log :
        \E j \in DOMAIN r.device_log[k] : r.device_log[k][j] = "read"

\* The camera loop of process_all has been left, normally or by an
\* exception, and its finally clause has run.
LoopLeft(r) ==
    \/ r.pc \in {"aggregate", "print"}
    \/ r.pc = "exited" /\ r.input.form # "malformed"

\* The commands of a run bracket the camera loop: "on" is sent before the
\* loop, nothing more until the loop is left, and "off" once it is left.
Bracketed(r) ==
    /\ r.pc \in {"loop", "raise"} => r.light = <<"on">>
    /\ Captured(r) => (Len(r.light) >= 1 /\ r.light[1] = "on")
    /\ LoopLeft(r) => r.light = <<"on", "off">>

\* C24: when the run input names a light strip pin, the strip is switched
\* on before the first capture and switched off after the last one, the
\* "off" command is sent on every way out of the camera loop (an exception
\* in the loop body included), and no frame is captured after "off".
C24_LightBracketsTheCaptures ==
    /\ [](run.input.lightStripPin # None => Bracketed(run))
    /\ [][(Len(run.light) > 0 /\ run.light[Len(run.light)] = "off")
            => run'.device_log = run.device_log]_vars

----------------------------------------------------------------------------
(* The alert LED                                                           *)

\* C25: from the return of stop_flash (or of set_state(False)) whose write
\* of the off colour succeeded to the next start_flash or set_state(True)
\* every LED of the strip is off: no flash thread turns one red, whatever
\* the interleaving, a timed-out join included.
C25_StripStaysOffAfterStop ==
    (led.quiet /\ led.wrote) => led.strip = AllLeds("off")

\* C26: at most one flash thread of an AlertLED is alive at any time.
C26_AtMostOneFlashThread ==
    Cardinality(Alive(led)) <= 1

----------------------------------------------------------------------------
(* Unsigned payloads                                                       *)

\* The dict has the required fields and a type of "slot" or "worker".
WellFormed(d) ==
    /\ \A f \in {"type", "id", "version", "ts"} : Has(d, f)
    /\ GetItem(d, "type") \in {"slot", "worker"}

\* C27: a well-formed payload without an 'hmac' field passes
\* _validate_qr_data, and no signature is looked at (the dict is left as it
\* was); so a well-formed payload that is rejected for its signature is
\* accepted once its 'hmac' field is removed.
C27_UnsignedPayloadsAreAccepted ==
    call.fn = "_validate_qr_data" =>
        /\ (WellFormed(call.in) /\ ~Has(call.in, "hmac")) =>
              /\ call.out.valid
              /\ call.out.qr_data = call.in
        /\ (WellFormed(call.in) /\ Has(call.in, "hmac") /\ ~call.out.valid) =>
              validate_qr_data(Pop(call.in, "hmac")).valid

\* An unsigned payload is accepted that is what is left of a rejected one,
\* a body carrying the signature of another body, when its 'hmac' field is
\* removed.
C27_Witness ==
    /\ call.fn = "_validate_qr_data"
    /\ ~Has(call.in, "hmac")
    /\ call.out.valid
    /\ \E d \in Dicts :
          /\ Has(d, "hmac")
          /\ Pop(d, "hmac") = call.in
          /\ GetItem(d, "hmac") = Mac(SecretKey, Canon(Body("slot", "T99")))
          /\ ~validate_qr_data(d).valid

----------------------------------------------------------------------------
(* Sign / verify round trip                                                *)

\* Two dicts are equal in Python: the same keys with the same values.
SameDict(a, b) ==
    \A k \in {KeyOrder[i] : i \in DOMAIN KeyOrder} :
        /\ Has(a, k) <=> Has(b, k)
        /\ Has(a, k) => GetItem(a, k) = GetItem(b, k)

\* Another value for field k of a payload.
Altered(d, k) ==
    SetItem(d, k, IF k = "ts" THEN GetItem(d, k) + 1
                  ELSE IF GetItem(d, k) = "slot" THEN "worker" ELSE "slot")

\* The fields of a signed payload other than the signature.
SignedFields(d) == {k \in {KeyOrder[i] : i \in DOMAIN KeyOrder} : Has(d, k) /\ k # "hmac"}

\* The round trip for one sign_qr_payload call: validation under the key
\* that signed succeeds and leaves the payload as it was, validation under
\* another key fails, and so does validation after a signed field changed.
RoundTrip(c) ==
    /\ c.in.secret_key = SecretKey =>
          /\ c.out.validated.valid
          /\ SameDict(c.out.validated.qr_data, c.out.signed)
          /\ c.out.standalone
    /\ c.in.secret_key # SecretKey =>
          /\ ~c.out.validated.valid
          /\ ~c.out.standalone
    /\ \A k \in SignedFields(c.out.signed) :
          /\ ~validate_qr_data(Altered(c.out.signed, k)).valid
          /\ ~validate_hmac_signature(Altered(c.out.signed, k), c.in.secret_key)

\* C28: for every payload with the required fields and a type of "slot" or
\* "worker", signing it with sign_qr_payload and validating it with the
\* same key succeeds and leaves the payload, hmac included, unchanged;
\* validation with another key, or after the value of a signed field was
\* changed, fails.
C28_SignVerifyRoundTrip ==
    (call.fn = "sign_qr_payload" /\ WellFormed(call.in.payload)) => RoundTrip(call)

----------------------------------------------------------------------------
(* Consistency of an observation                                           *)

\* C29: in every observation SlotProcessor.process_slot returns,
\* alertTriggered is true exactly when status is EMPTY, workerName is
\* non-null only when status is CHECKED_OUT, and status is ERROR exactly
\* when error is non-null.
C29_ObservationIsConsistent ==
    call.fn = "SlotProcessor.process_slot" =>
        /\ call.out.alertTriggered <=> call.out.status = "EMPTY"
        /\ call.out.workerName # None => call.out.status = "CHECKED_OUT"
        /\ call.out.status = "ERROR" <=> call.out.error # None

\* A QR code whose JSON is no object makes determine_status raise after the
\* region was extracted and saved: the observation is an ERROR with the
\* exception text, no alert and no worker.
C29_Witness ==
    /\ call.fn = "SlotProcessor.process_slot"
    /\ extract_roi(call.in.cfg.region).form = "rect"
    /\ ~call.in.scene.saveRaises
    /\ call.in.scene.qr.form = "scalar"
    /\ call.out.status = "ERROR"
    /\ call.out.error = "AttributeError"
    /\ ~call.out.alertTriggered
    /\ call.out.workerName = None

----------------------------------------------------------------------------
(* Slot QR validation                                                      *)

\* The ids detected in the rectified frame and the ids expected.
DetectedIds(in) == {Strip(in.detected_qrs[i]) : i \in DOMAIN in.detected_qrs}
ExpectedIds(in) == {in.expected_slots[i].id : i \in DOMAIN in.expected_slots}

\* What validate_slot_qrs is to answer once the frame was captured.
ValidationIsExact(c) ==
    /\ c.in.should_detect =>
          /\ c.out.success <=> ExpectedIds(c.in) \subseteq DetectedIds(c.in)
          /\ c.out.success <=> c.out.missing_slots = <<>>
    /\ ~c.in.should_detect =>
          (c.out.success <=> ExpectedIds(c.in) \cap DetectedIds(c.in) = {})

\* C30: with should_detect true validate_slot_qrs reports success exactly
\* when the id of every expected slot was detected in the rectified frame,
\* and missing_slots is empty exactly when success is true, whatever the
\* list of detections, repeated ids included; with should_detect false it
\* reports success exactly when no expected id was detected.
C30_ValidationCountsIdentities ==
    (call.fn = "validate_slot_qrs" /\ call.in.device = "ok") => ValidationIsExact(call)

====
